---- MODULE Spec2Model ----
(***************************************************************************)
(* FlyBy: the bubbletea event loop (Model.Update), the per-view state      *)
(* machines of internal/tui and the commands they hand to the runtime.     *)
(*                                                                         *)
(* A string of the program is a sequence of one-character strings, so that *)
(* strings.ToLower and strings.Contains are computed, not assumed.  A      *)
(* tea.Cmd returned by a handler is an element of the bag `pending`; the   *)
(* runtime runs every command on its own goroutine, so the results are     *)
(* delivered in any order.                                                 *)
(***************************************************************************)
EXTENDS Integers, Sequences, FiniteSets, Bags, TLC

VARIABLES
    focus,          \* environment: the view the user exercises in this session
    quit,           \* tea.Quit has been returned to the runtime
    currentView,    \* Model.currentView
    currentTarget,  \* Model.currentTarget
    client,         \* Model.client (its target name; NoClient when nil)
    store,          \* ConfigManager.config.Targets (the set of stored targets)
    targetsView,    \* Model.targetsView
    pipelinesView,  \* Model.pipelinesView
    jobsView,       \* Model.jobsView
    resourcesView,  \* Model.resourcesView
    buildsView,     \* Model.buildsView
    authView,       \* Model.authView
    mainView,       \* Model.mainView (its selected choice)
    addTargetView,  \* Model.addTargetView
    flyrc,          \* the targets in the configuration file ~/.flyrc
    pending,        \* bag of the commands handed to the runtime whose message is not yet processed
    entered         \* environment: the context the user last opened each list view for

vars == <<focus, entered, quit, currentView, currentTarget, client, store, targetsView,
          pipelinesView, jobsView, resourcesView, buildsView, authView, mainView, pending,
          addTargetView, flyrc>>

----------------------------------------------------------------------------
(* Bounds of the model *)

\* longest search query the user types
MaxQuery == 2
\* most commands in flight at once
MaxInFlight == 2
\* most characters the user types into the Add-Target form
MaxForm == 3

----------------------------------------------------------------------------
(* Strings *)

\* the empty string ""
NoName == <<>>

\* unicode.ToLower on the characters the model uses
LowerChar(c) ==
    CASE c = "A" -> "a"
      [] c = "B" -> "b"
      [] c = "S" -> "s"
      [] OTHER -> c

\* a ToLower that leaves every character as it is
ToLowerAsIs(s) == s

\* strings.ToLower
ToLower(s) == [i \in 1..Len(s) |-> LowerChar(s[i])]

\* strings.HasPrefix(s[from-1:], sub)
RECURSIVE HasPrefixAt(_, _, _, _)
HasPrefixAt(s, sub, from, k) ==
    IF k > Len(sub) THEN TRUE
    ELSE IF from + k - 1 > Len(s) THEN FALSE
    ELSE IF s[from + k - 1] # sub[k] THEN FALSE
    ELSE HasPrefixAt(s, sub, from, k + 1)

\* strings.Index(s, sub) >= 0, scanning the offsets left to right
RECURSIVE IndexFrom(_, _, _)
IndexFrom(s, sub, from) ==
    IF from + Len(sub) - 1 > Len(s) THEN FALSE
    ELSE IF HasPrefixAt(s, sub, from, 1) THEN TRUE
    ELSE IndexFrom(s, sub, from + 1)

\* strings.Contains
Contains(s, sub) == IndexFrom(s, sub, 1)

----------------------------------------------------------------------------
(* What the external tool and the configuration file can hold *)

\* config.Target
Target(name, api, team) == [Name |-> name, API |-> api, Team |-> team]
T1 == Target(<<"s", "a">>, <<"b", "B">>, <<"m">>)
T2 == Target(<<"B">>, <<"u">>, <<"m">>)
StoredTargets == {T1, T2}

\* Target.GetURL
GetURL(t) == t.API

\* concourse.Pipeline
Pipeline(name, team, paused) == [Name |-> name, TeamName |-> team, Paused |-> paused]
P1 == Pipeline(<<"S", "b", "b">>, <<"m">>, FALSE)
P2 == Pipeline(<<"a">>, <<"b", "s">>, TRUE)
P3 == Pipeline(<<"a", "s">>, <<"m">>, FALSE)
PipelineLists == {<<P1, P2, P3>>, <<P3, P1>>}

\* concourse.Job
Job(pipeline, name) == [Name |-> name, PipelineName |-> pipeline, TeamName |-> <<"m">>]
JobLists(p) == {<<Job(p, <<"a", "b">>), Job(p, <<"B", "b">>)>>, <<Job(p, <<"B", "b">>)>>}

\* concourse.Resource
Resource(pipeline, name) ==
    [Name |-> name, PipelineName |-> pipeline, TeamName |-> <<"m">>, Type |-> <<"g">>]
ResourceLists(p) ==
    {<<Resource(p, <<"g">>), Resource(p, <<"h">>)>>,
     <<Resource(p, <<"h">>), Resource(p, <<"g">>)>>,
     <<Resource(p, <<"h">>)>>}

\* concourse.Build
Build(pipeline, job, name) == [Name |-> name, JobName |-> job, PipelineName |-> pipeline]
BuildLists(p, j) ==
    {<<Build(p, j, <<"8">>), Build(p, j, <<"7">>)>>,
     <<Build(p, j, <<"7", ".", "1">>), Build(p, j, <<"8">>), Build(p, j, <<"7">>)>>}

\* error values, by their err.Error() text; NoError is nil
NoError == <<>>
ErrNotAuthorized == <<"n", "o", "t", " ", "a", "u", "t", "h", "o", "r", "i", "z", "e", "d">>
ErrRefused == <<"r", "e", "f", "u", "s", "e", "d">>
ErrExec == <<"f", "l", "y", " ", "n", "o", "t", " ", "f", "o", "u", "n", "d">>
ErrExitStatus == <<"e", "x", "i", "t", " ", "s", "t", "a", "t", "u", "s", " ", "1">>
LoadErrors == {ErrNotAuthorized, ErrRefused}

\* fmt.Sprintf / fmt.Errorf of a fixed text followed by one %s argument; the fixed text,
\* which the program never inspects, is one element
Sprintf(prefix, arg) == <<prefix>> \o arg

\* concourse.IsAuthError: the lower-cased text of the error contains "not authorized",
\* "not logged in", "unauthorized" or "authentication"
IsAuthError(err) ==
    /\ err # NoError
    /\ \/ Contains(ToLower(err), <<"n", "o", "t", " ", "a", "u", "t", "h", "o", "r", "i", "z", "e", "d">>)
       \/ Contains(ToLower(err), <<"n", "o", "t", " ", "l", "o", "g", "g", "e", "d", " ", "i", "n">>)
       \/ Contains(ToLower(err), <<"u", "n", "a", "u", "t", "h", "o", "r", "i", "z", "e", "d">>)
       \/ Contains(ToLower(err), <<"a", "u", "t", "h", "e", "n", "t", "i", "c", "a", "t", "i", "o", "n">>)

\* Model.client == nil
NoClient == <<"n", "i", "l">>

----------------------------------------------------------------------------
(* Commands and messages *)

ViewMain == "ViewMain"
ViewTargets == "ViewTargets"
ViewPipelines == "ViewPipelines"
ViewJobs == "ViewJobs"
ViewResources == "ViewResources"
ViewBuilds == "ViewBuilds"
ViewAddTarget == "ViewAddTarget"
ViewAuth == "ViewAuth"

\* a tea.Cmd: the message it yields, or the external call it makes, with what its closure
\* captured; ran is the client a closure that reads m.client found there when the runtime
\* ran it, NoName while it has not run
Cmd(kind, view, target, pipeline, job, build) ==
    [kind |-> kind, view |-> view, target |-> target, pipeline |-> pipeline,
     job |-> job, build |-> build, ran |-> NoName]

\* func() tea.Msg { return SwitchViewMsg{...} }
SwitchViewMsg(view, target, job, pipeline) == Cmd("SwitchViewMsg", view, target, pipeline, job, 0)

NoCmd == <<>>

\* the one-character key names (len(msg.String()) == 1)
Runes == {"s", "B", "q", "j", "k", "r", "p", "t", "x", "b", "a", "d", "i", "c", "/", "y", "n"}

\* what a handler returns: the updated view model and the commands for the runtime
Ret(m, cmds) == [m |-> m, cmds |-> cmds]

----------------------------------------------------------------------------
(* Targets view (TargetsViewModel, the variant with search) *)

TargetsMaxVisible == 10

\* ConfigManager.GetTargets, ranged over in one of Go's map iteration orders
MapOrders(S) ==
    {o \in [1..Cardinality(S) -> S] : \A i, j \in 1..Cardinality(S) : i # j => o[i] # o[j]}

\* the condition of the loop body of filterTargets
targetMatches(target, query) ==
    \/ Contains(ToLower(target.Name), query)
    \/ Contains(ToLower(GetURL(target)), query)
    \/ Contains(ToLower(target.Team), query)

\* the loop of filterTargets: append every matching target, in order
RECURSIVE targetsLoop(_, _, _, _)
targetsLoop(targets, i, query, acc) ==
    IF i > Len(targets) THEN acc
    ELSE targetsLoop(targets, i + 1, query,
                     IF targetMatches(targets[i], query) THEN Append(acc, targets[i]) ELSE acc)

\* the bounds reset that ends filterTargets
targetsClamp(m) ==
    IF m.selected >= Len(m.filteredTargets) \/ (m.selected < 0 /\ Len(m.filteredTargets) > 0)
    THEN [m EXCEPT !.selected = 0, !.scrollOffset = 0]
    ELSE m

\* TargetsViewModel.filterTargets
filterTargets(m) ==
    targetsClamp(
        IF m.searchQuery = NoName
        THEN [m EXCEPT !.filteredTargets = m.targets]
        ELSE [m EXCEPT !.filteredTargets = targetsLoop(m.targets, 1, ToLower(m.searchQuery), <<>>)])

\* TargetsViewModel.loadTargets, the map ranged over in the order `order`
loadTargets(m, order) == filterTargets([m EXCEPT !.targets = order])

\* NewTargetsViewModel
NewTargetsViewModel(order) ==
    loadTargets([targets |-> <<>>, filteredTargets |-> <<>>, selected |-> 0,
                 showingDetail |-> FALSE, scrollOffset |-> 0,
                 searchQuery |-> NoName, searchMode |-> FALSE], order)

\* TargetsViewModel.selectTarget
selectTarget(m) ==
    IF Len(m.filteredTargets) = 0 THEN NoCmd
    ELSE <<SwitchViewMsg(ViewPipelines, m.filteredTargets[m.selected + 1].Name, NoName, NoName)>>

\* TargetsViewModel.deleteTarget: the name handed to ConfigManager.RemoveTarget. The
\* receiver is a copy, so the reload and the adjustments it makes are dropped on return.
deleteTarget(m) ==
    IF Len(m.filteredTargets) = 0 THEN {} ELSE {m.filteredTargets[m.selected + 1].Name}

\* the search-mode branch of TargetsViewModel.Update
targetsSearchKey(m, key) ==
    CASE key = "enter" -> [m EXCEPT !.searchMode = FALSE]
      [] key = "esc" -> filterTargets([m EXCEPT !.searchMode = FALSE, !.searchQuery = NoName])
      [] key = "backspace" ->
            IF Len(m.searchQuery) > 0
            THEN filterTargets([m EXCEPT !.searchQuery = SubSeq(m.searchQuery, 1, Len(m.searchQuery) - 1)])
            ELSE m
      [] key = "ctrl+u" -> filterTargets([m EXCEPT !.searchQuery = NoName])
      [] OTHER ->
            IF key \in Runes
            THEN filterTargets([m EXCEPT !.searchQuery = Append(m.searchQuery, key)])
            ELSE m

\* TargetsViewModel.Update (the case "F5" never matches: the key's name is "f5")
TargetsUpdate(m, key) ==
    IF m.searchMode THEN Ret(targetsSearchKey(m, key), NoCmd)
    ELSE CASE key \in {"up", "k"} ->
                IF m.selected > 0
                THEN Ret([m EXCEPT !.selected = m.selected - 1,
                                   !.scrollOffset = IF m.selected - 1 < m.scrollOffset
                                                    THEN m.selected - 1 ELSE m.scrollOffset], NoCmd)
                ELSE Ret(m, NoCmd)
           [] key \in {"down", "j"} ->
                IF m.selected < Len(m.filteredTargets) - 1
                THEN Ret([m EXCEPT !.selected = m.selected + 1,
                                   !.scrollOffset = IF m.selected + 1 >= m.scrollOffset + TargetsMaxVisible
                                                    THEN m.selected + 1 - TargetsMaxVisible + 1
                                                    ELSE m.scrollOffset], NoCmd)
                ELSE Ret(m, NoCmd)
           [] key = "enter" -> Ret(m, selectTarget(m))
           [] key = "a" -> Ret(m, <<SwitchViewMsg(ViewAddTarget, NoName, NoName, NoName)>>)
           [] key = "d" -> Ret(m, NoCmd)
           [] key = "i" -> Ret([m EXCEPT !.showingDetail = ~m.showingDetail], NoCmd)
           [] key \in {"/", "s"} -> Ret([m EXCEPT !.searchMode = TRUE], NoCmd)
           [] OTHER -> Ret(m, NoCmd)

\* the targets "d" removes from the store in TargetsViewModel.Update
TargetsRemoved(m, key) ==
    IF ~m.searchMode /\ key = "d" THEN deleteTarget(m) ELSE {}

----------------------------------------------------------------------------
(* Pipelines view (PipelinesViewModel) *)

pipelinesStateLoading == "pipelinesStateLoading"
pipelinesStateList == "pipelinesStateList"
PipelinesMaxVisible == 10

\* NewPipelinesViewModel
NewPipelinesViewModel ==
    [client |-> NoClient, pipelines |-> <<>>, filteredPipelines |-> <<>>, selected |-> 0,
     state |-> pipelinesStateList, err |-> NoError, scrollOffset |-> 0,
     searchQuery |-> NoName, searchMode |-> FALSE]

\* PipelinesViewModel.LoadPipelines
LoadPipelines(m, c) ==
    Ret([m EXCEPT !.client = c, !.state = pipelinesStateLoading],
        <<Cmd("GetPipelines", "", c, NoName, NoName, 0)>>)

\* the condition of the loop body of filterPipelines
pipelineMatches(pipeline, query) ==
    \/ Contains(ToLower(pipeline.Name), query)
    \/ Contains(ToLower(pipeline.TeamName), query)

\* the loop of filterPipelines
RECURSIVE pipelinesLoop(_, _, _, _)
pipelinesLoop(pipelines, i, query, acc) ==
    IF i > Len(pipelines) THEN acc
    ELSE pipelinesLoop(pipelines, i + 1, query,
                       IF pipelineMatches(pipelines[i], query)
                       THEN Append(acc, pipelines[i]) ELSE acc)

\* filterPipelines without its bounds reset
pipelinesNoClamp(m) == m

\* the bounds reset that ends filterPipelines
pipelinesClamp(m) ==
    IF m.selected >= Len(m.filteredPipelines) \/ (m.selected < 0 /\ Len(m.filteredPipelines) > 0)
    THEN [m EXCEPT !.selected = 0, !.scrollOffset = 0]
    ELSE m

\* PipelinesViewModel.filterPipelines
filterPipelines(m) ==
    pipelinesClamp(
        IF m.searchQuery = NoName
        THEN [m EXCEPT !.filteredPipelines = m.pipelines]
        ELSE [m EXCEPT !.filteredPipelines =
                          pipelinesLoop(m.pipelines, 1, ToLower(m.searchQuery), <<>>)])

\* the search-mode branch of PipelinesViewModel.Update
pipelinesSearchKey(m, key) ==
    CASE key = "enter" -> [m EXCEPT !.searchMode = FALSE]
      [] key = "esc" -> filterPipelines([m EXCEPT !.searchMode = FALSE, !.searchQuery = NoName])
      [] key = "backspace" ->
            IF Len(m.searchQuery) > 0
            THEN filterPipelines([m EXCEPT !.searchQuery = SubSeq(m.searchQuery, 1, Len(m.searchQuery) - 1)])
            ELSE m
      [] key = "ctrl+u" -> filterPipelines([m EXCEPT !.searchQuery = NoName])
      [] OTHER ->
            IF key \in Runes
            THEN filterPipelines([m EXCEPT !.searchQuery = Append(m.searchQuery, key)])
            ELSE m

\* PipelinesViewModel.togglePipeline: the command yields a string, which Model.Update ignores
togglePipeline(m) ==
    IF Len(m.filteredPipelines) = 0 THEN NoCmd
    ELSE <<Cmd("string", "", NoName, m.filteredPipelines[m.selected + 1].Name, NoName, 0)>>

\* PipelinesViewModel.GetSelectedPipeline
GetSelectedPipeline(m) ==
    IF Len(m.filteredPipelines) = 0 \/ m.selected >= Len(m.filteredPipelines) THEN NoName
    ELSE m.filteredPipelines[m.selected + 1].Name

\* PipelinesViewModel.Update
PipelinesUpdate(m, key) ==
    IF m.searchMode THEN Ret(pipelinesSearchKey(m, key), NoCmd)
    ELSE CASE key = "f5" ->
                IF m.client # NoClient
                THEN LoadPipelines([m EXCEPT !.state = pipelinesStateLoading], m.client)
                ELSE Ret(m, NoCmd)
           [] key \in {"up", "k"} ->
                IF m.selected > 0
                THEN Ret([m EXCEPT !.selected = m.selected - 1,
                                   !.scrollOffset = IF m.selected - 1 < m.scrollOffset
                                                    THEN m.selected - 1 ELSE m.scrollOffset], NoCmd)
                ELSE Ret(m, NoCmd)
           [] key = "down" ->
                IF m.selected < Len(m.filteredPipelines) - 1
                THEN Ret([m EXCEPT !.selected = m.selected + 1,
                                   !.scrollOffset = IF m.selected + 1 >= m.scrollOffset + PipelinesMaxVisible
                                                    THEN m.selected + 1 - PipelinesMaxVisible + 1
                                                    ELSE m.scrollOffset], NoCmd)
                ELSE Ret(m, NoCmd)
           [] key = "j" ->
                IF Len(m.filteredPipelines) > 0
                THEN Ret(m, <<SwitchViewMsg(ViewJobs, NoName, NoName, NoName)>>)
                ELSE Ret(m, NoCmd)
           [] key = "r" ->
                IF Len(m.filteredPipelines) > 0
                THEN Ret(m, <<SwitchViewMsg(ViewResources, NoName, NoName, NoName)>>)
                ELSE Ret(m, NoCmd)
           [] key = "p" ->
                IF Len(m.filteredPipelines) > 0 THEN Ret(m, togglePipeline(m)) ELSE Ret(m, NoCmd)
           [] key = "enter" ->
                IF Len(m.filteredPipelines) > 0
                THEN Ret(m, <<SwitchViewMsg(ViewJobs, NoName, NoName,
                                            m.filteredPipelines[m.selected + 1].Name)>>)
                ELSE Ret(m, NoCmd)
           [] key \in {"/", "s"} -> Ret([m EXCEPT !.searchMode = TRUE], NoCmd)
           [] OTHER -> Ret(m, NoCmd)

\* PipelinesLoadedMsg
PipelinesLoadedMsg(pipelines, err) == [Pipelines |-> pipelines, Error |-> err]

\* a handler that leaves Loading only when the load succeeded
HandlePipelinesLoadedOnSuccess(m, msg) ==
    IF msg.Error = NoError
    THEN filterPipelines([m EXCEPT !.pipelines = msg.Pipelines, !.err = msg.Error,
                                   !.state = pipelinesStateList, !.selected = 0,
                                   !.scrollOffset = 0])
    ELSE [m EXCEPT !.pipelines = msg.Pipelines, !.err = msg.Error]

\* PipelinesViewModel.HandlePipelinesLoaded
HandlePipelinesLoaded(m, msg) ==
    LET n == [m EXCEPT !.pipelines = msg.Pipelines, !.err = msg.Error,
                       !.state = pipelinesStateList]
    IN  IF msg.Error = NoError
        THEN filterPipelines([n EXCEPT !.selected = 0, !.scrollOffset = 0])
        ELSE n

----------------------------------------------------------------------------
(* The external tool's mutating calls (concourse.Client) *)

\* how a run of the fly executable can end: it could not be started (an error that is no
\* *exec.ExitError), it exited non-zero (*exec.ExitError), or it exited zero
ExitCannotRun == "cannot run"
ExitNonZero == "exit status 1"
ExitZero == "exit status 0"
\* cmd.CombinedOutput(): how the run ended and what it printed
FlyRun(exit, output) == [exit |-> exit, output |-> output]

\* the texts the tool prints
OutStarted == <<"S", "t", "a", "r", "t", "e", "d", " ", "#", "5", "\n">>
OutSucceeded == <<" ", "S", "u", "c", "c", "e", "e", "d", "e", "d", "\n">>
OutNotFound == <<"n", "o", "t", " ", "f", "o", "u", "n", "d", "\n">>
OutNothing == <<>>

\* strings.TrimSpace: drop the white space at the left end, then at the right end
TrimSpace(s) ==
    LET IsSpace(c) == c \in {" ", "\n", "\t"}
        RECURSIVE TrimLeft(_)
        TrimLeft(t) == IF t # <<>> /\ IsSpace(Head(t)) THEN TrimLeft(Tail(t)) ELSE t
        RECURSIVE TrimRight(_)
        TrimRight(t) ==
            IF t # <<>> /\ IsSpace(t[Len(t)]) THEN TrimRight(SubSeq(t, 1, Len(t) - 1)) ELSE t
    IN  TrimRight(TrimLeft(s))

\* the marker words of a successful operation
MarkerStarted == <<"s", "t", "a", "r", "t", "e", "d">>
MarkerSucceeded == <<"s", "u", "c", "c", "e", "e", "d", "e", "d">>

\* strings.Contains(strings.ToLower(outputStr), marker)
HasMarker(outputStr, marker) == Contains(ToLower(outputStr), marker)

\* a result that looks for the marker word whatever the exit status was
WithOutputByMarker(run, marker) ==
    [Success |-> HasMarker(TrimSpace(run.output), marker), Output |-> TrimSpace(run.output),
     Error |-> IF run.exit = ExitCannotRun THEN ErrExec ELSE NoError]

\* the three-way result of TriggerJobWithOutput, RerunBuildWithOutput, CheckResourceWithOutput
WithOutput(run, marker) ==
    LET outputStr == TrimSpace(run.output)
    IN  IF run.exit = ExitNonZero THEN [Success |-> FALSE, Output |-> outputStr, Error |-> NoError]
        ELSE IF run.exit = ExitCannotRun
        THEN [Success |-> FALSE, Output |-> outputStr, Error |-> ErrExec]
        ELSE [Success |-> HasMarker(outputStr, marker), Output |-> outputStr, Error |-> NoError]

\* Client.TriggerJobWithOutput
TriggerJobWithOutput(run) == WithOutput(run, MarkerStarted)
\* Client.RerunBuildWithOutput
RerunBuildWithOutput(run) == WithOutput(run, MarkerStarted)
\* Client.CheckResourceWithOutput
CheckResourceWithOutput(run) == WithOutput(run, MarkerSucceeded)

\* how a run of fly trigger-job can end
TriggerRuns ==
    {FlyRun(ExitCannotRun, OutNothing), FlyRun(ExitNonZero, OutNotFound),
     FlyRun(ExitNonZero, OutStarted), FlyRun(ExitZero, OutStarted), FlyRun(ExitZero, OutNotFound)}
\* how a run of fly rerun-build can end
RerunRuns ==
    {FlyRun(ExitCannotRun, OutNothing), FlyRun(ExitNonZero, OutNotFound),
     FlyRun(ExitZero, OutStarted), FlyRun(ExitZero, OutNotFound)}
\* how a run of fly check-resource can end
CheckRuns ==
    {FlyRun(ExitCannotRun, OutNothing), FlyRun(ExitNonZero, OutNotFound),
     FlyRun(ExitZero, OutSucceeded), FlyRun(ExitZero, OutNotFound)}

\* fmt.Sprintf("%s/%s", pipeline, name)
Slash(pipeline, name) == pipeline \o <<"/">> \o name

----------------------------------------------------------------------------
(* Jobs view (JobsViewModel, the variant with search) *)

\* NewJobsViewModel
NewJobsViewModel ==
    [client |-> NoClient, jobs |-> <<>>, filteredJobs |-> <<>>, selected |-> 0,
     loading |-> FALSE, err |-> NoError, pipeline |-> NoName, triggeringJob |-> NoName,
     triggerResult |-> NoName, triggerError |-> NoError, searchQuery |-> NoName,
     searchMode |-> FALSE]

\* JobsViewModel.LoadJobs
LoadJobs(m, c, pipeline) == <<Cmd("GetJobs", "", c, pipeline, NoName, 0)>>

\* the condition of the loop body of filterJobs
jobMatches(job, query) ==
    \/ Contains(ToLower(job.Name), query)
    \/ Contains(ToLower(job.PipelineName), query)
    \/ Contains(ToLower(job.TeamName), query)

\* the loop of filterJobs
RECURSIVE jobsLoop(_, _, _, _)
jobsLoop(jobs, i, query, acc) ==
    IF i > Len(jobs) THEN acc
    ELSE jobsLoop(jobs, i + 1, query,
                  IF jobMatches(jobs[i], query) THEN Append(acc, jobs[i]) ELSE acc)

\* the bounds reset that ends filterJobs
jobsClamp(m) ==
    IF m.selected >= Len(m.filteredJobs) \/ (m.selected < 0 /\ Len(m.filteredJobs) > 0)
    THEN [m EXCEPT !.selected = 0]
    ELSE m

\* JobsViewModel.filterJobs
filterJobs(m) ==
    jobsClamp(
        IF m.searchQuery = NoName
        THEN [m EXCEPT !.filteredJobs = m.jobs]
        ELSE [m EXCEPT !.filteredJobs = jobsLoop(m.jobs, 1, ToLower(m.searchQuery), <<>>)])

\* the search-mode branch of JobsViewModel.Update
jobsSearchKey(m, key) ==
    CASE key = "enter" -> [m EXCEPT !.searchMode = FALSE]
      [] key = "esc" -> filterJobs([m EXCEPT !.searchMode = FALSE, !.searchQuery = NoName])
      [] key = "backspace" ->
            IF Len(m.searchQuery) > 0
            THEN filterJobs([m EXCEPT !.searchQuery = SubSeq(m.searchQuery, 1, Len(m.searchQuery) - 1)])
            ELSE m
      [] key = "ctrl+u" -> filterJobs([m EXCEPT !.searchQuery = NoName])
      [] OTHER ->
            IF key \in Runes
            THEN filterJobs([m EXCEPT !.searchQuery = Append(m.searchQuery, key)])
            ELSE m

\* JobsViewModel.triggerJob
triggerJob(m) ==
    IF Len(m.filteredJobs) = 0 THEN NoCmd
    ELSE <<Cmd("TriggerJobRequestMsg", "", NoName,
               m.filteredJobs[m.selected + 1].PipelineName, m.filteredJobs[m.selected + 1].Name, 0)>>

\* JobsViewModel.Update
JobsUpdate(m, key) ==
    IF m.searchMode THEN Ret(jobsSearchKey(m, key), NoCmd)
    ELSE CASE key = "f5" ->
                IF m.client # NoClient /\ m.pipeline # NoName
                THEN Ret([m EXCEPT !.loading = TRUE], LoadJobs(m, m.client, m.pipeline))
                ELSE Ret(m, NoCmd)
           [] key \in {"up", "k"} ->
                Ret([m EXCEPT !.selected = IF m.selected > 0 THEN m.selected - 1 ELSE m.selected,
                              !.triggerResult = NoName, !.triggerError = NoError], NoCmd)
           [] key \in {"down", "j"} ->
                Ret([m EXCEPT !.selected = IF m.selected < Len(m.filteredJobs) - 1
                                           THEN m.selected + 1 ELSE m.selected,
                              !.triggerResult = NoName, !.triggerError = NoError], NoCmd)
           [] key \in {"enter", "t"} ->
                IF Len(m.filteredJobs) > 0 THEN Ret(m, triggerJob(m)) ELSE Ret(m, NoCmd)
           [] key \in {"x", "clear"} ->
                Ret([m EXCEPT !.triggerResult = NoName, !.triggerError = NoError,
                              !.triggeringJob = NoName], NoCmd)
           [] key = "b" ->
                IF Len(m.filteredJobs) > 0
                THEN Ret(m, <<SwitchViewMsg(ViewBuilds, NoName, m.filteredJobs[m.selected + 1].Name,
                                            m.filteredJobs[m.selected + 1].PipelineName)>>)
                ELSE Ret(m, NoCmd)
           [] key \in {"/", "s"} -> Ret([m EXCEPT !.searchMode = TRUE], NoCmd)
           [] OTHER -> Ret(m, NoCmd)

\* JobsLoadedMsg
JobsLoadedMsg(jobs, err, pipeline) == [Jobs |-> jobs, Error |-> err, Pipeline |-> pipeline]

\* JobsViewModel.HandleJobsLoaded
HandleJobsLoaded(m, msg) ==
    filterJobs([m EXCEPT !.jobs = msg.Jobs, !.err = msg.Error, !.pipeline = msg.Pipeline,
                         !.loading = FALSE, !.selected = 0])

\* JobsViewModel.HandleTriggerJob
HandleTriggerJob(m, msg) ==
    IF msg.Error # NoError
    THEN [m EXCEPT !.triggeringJob = NoName, !.triggerError = msg.Error, !.triggerResult = NoName]
    ELSE IF msg.Success
    THEN [m EXCEPT !.triggeringJob = NoName, !.triggerResult = msg.Output, !.triggerError = NoError]
    ELSE [m EXCEPT !.triggeringJob = NoName, !.triggerResult = NoName,
                   !.triggerError = Sprintf("Job trigger failed: ", msg.Output)]

\* JobsViewModel.StartJobTrigger
StartJobTrigger(m, jobName) ==
    [m EXCEPT !.triggeringJob = jobName, !.triggerResult = NoName, !.triggerError = NoError]

----------------------------------------------------------------------------
(* Resources view (ResourcesViewModel) *)

resourcesStateLoading == "resourcesStateLoading"
resourcesStateList == "resourcesStateList"
resourcesStateChecking == "resourcesStateChecking"

\* NewResourcesViewModel
NewResourcesViewModel ==
    [client |-> NoClient, resources |-> <<>>, selected |-> 0, state |-> resourcesStateList,
     err |-> NoError, pipeline |-> NoName, checkingResource |-> NoName,
     checkResult |-> NoName, checkError |-> NoError]

\* ResourcesViewModel.LoadResources
LoadResources(m, c, pipeline) == <<Cmd("GetResources", "", c, pipeline, NoName, 0)>>

\* ResourcesViewModel.ReloadResources
ReloadResources(m, c) ==
    IF m.pipeline = NoName THEN NoCmd
    ELSE <<Cmd("GetResources.reload", "", c, m.pipeline, NoName, 0)>>

\* ResourcesViewModel.Update
ResourcesUpdate(m, key) ==
    CASE key = "f5" ->
            IF m.client # NoClient /\ m.pipeline # NoName
            THEN Ret([m EXCEPT !.state = resourcesStateLoading],
                     LoadResources(m, m.client, m.pipeline))
            ELSE Ret(m, NoCmd)
      [] key \in {"up", "k"} ->
            IF m.selected > 0
            THEN Ret([m EXCEPT !.selected = m.selected - 1,
                               !.checkResult = NoName, !.checkError = NoError], NoCmd)
            ELSE Ret(m, NoCmd)
      [] key \in {"down", "j"} ->
            IF m.selected < Len(m.resources) - 1
            THEN Ret([m EXCEPT !.selected = m.selected + 1,
                               !.checkResult = NoName, !.checkError = NoError], NoCmd)
            ELSE Ret(m, NoCmd)
      [] key \in {"enter", "c"} ->
            IF Len(m.resources) > 0
            THEN Ret(m, <<Cmd("CheckResourceRequestMsg", "", NoName,
                              m.resources[m.selected + 1].PipelineName,
                              m.resources[m.selected + 1].Name, 0)>>)
            ELSE Ret(m, NoCmd)
      [] key \in {"x", "clear"} ->
            Ret([m EXCEPT !.checkResult = NoName, !.checkError = NoError,
                          !.checkingResource = NoName], NoCmd)
      [] OTHER -> Ret(m, NoCmd)

\* ResourcesLoadedMsg
ResourcesLoadedMsg(resources, err, pipeline, isReload) ==
    [Resources |-> resources, Error |-> err, Pipeline |-> pipeline, IsReload |-> isReload]

\* ResourcesViewModel.HandleResourcesLoaded
HandleResourcesLoaded(m, msg) ==
    LET n == [m EXCEPT !.resources = msg.Resources, !.err = msg.Error,
                       !.pipeline = msg.Pipeline, !.state = resourcesStateList]
    IN  IF ~msg.IsReload THEN [n EXCEPT !.selected = 0]
        ELSE IF n.selected >= Len(n.resources) THEN [n EXCEPT !.selected = 0]
        ELSE n

\* a handler that asks for a reload after every check the tool could run
HandleResourceCheckReloads(m, msg) ==
    IF msg.Error # NoError
    THEN Ret([m EXCEPT !.checkingResource = NoName, !.checkError = msg.Error,
                       !.checkResult = NoName], NoCmd)
    ELSE Ret([m EXCEPT !.checkingResource = NoName, !.checkResult = msg.Output,
                       !.checkError = NoError],
             <<Cmd("ReloadResourcesMsg", "", NoName, m.pipeline, NoName, 0)>>)

\* ResourcesViewModel.HandleResourceCheck
HandleResourceCheck(m, msg) ==
    IF msg.Error # NoError
    THEN Ret([m EXCEPT !.checkingResource = NoName, !.checkError = msg.Error,
                       !.checkResult = NoName], NoCmd)
    ELSE IF msg.Success
    THEN Ret([m EXCEPT !.checkingResource = NoName, !.checkResult = msg.Output,
                       !.checkError = NoError],
             <<Cmd("ReloadResourcesMsg", "", NoName, m.pipeline, NoName, 0)>>)
    ELSE Ret([m EXCEPT !.checkingResource = NoName, !.checkResult = NoName,
                       !.checkError = Sprintf("Resource check failed: ", msg.Output)], NoCmd)

\* ResourcesViewModel.StartResourceCheck
StartResourceCheck(m, resourceName) ==
    [m EXCEPT !.checkingResource = resourceName, !.checkResult = NoName, !.checkError = NoError]

----------------------------------------------------------------------------
(* Builds view (BuildsViewModel) *)

buildsStateLoading == "buildsStateLoading"
buildsStateList == "buildsStateList"
buildsStateRerunning == "buildsStateRerunning"

\* NewBuildsViewModel(nil)
NewBuildsViewModel ==
    [client |-> NoClient, builds |-> <<>>, cursor |-> 0, state |-> buildsStateLoading,
     err |-> NoError, job |-> NoName, pipeline |-> NoName, rerunMessage |-> NoName]

\* the value of a decimal digit, -1 for any other character
DigitValue(c) ==
    CASE c = "0" -> 0 [] c = "1" -> 1 [] c = "2" -> 2 [] c = "3" -> 3 [] c = "4" -> 4
      [] c = "5" -> 5 [] c = "6" -> 6 [] c = "7" -> 7 [] c = "8" -> 8 [] c = "9" -> 9
      [] OTHER -> -1

\* the digit loop of strconv.Atoi
RECURSIVE atoiLoop(_, _, _)
atoiLoop(s, i, acc) ==
    IF i > Len(s) THEN [ok |-> TRUE, n |-> acc]
    ELSE IF DigitValue(s[i]) < 0 THEN [ok |-> FALSE, n |-> 0]
    ELSE atoiLoop(s, i + 1, acc * 10 + DigitValue(s[i]))

\* a conversion that accepts every name
AtoiAcceptsAll(s) == [ok |-> TRUE, n |-> 0]

\* strconv.Atoi
Atoi(s) ==
    IF Len(s) = 0 THEN [ok |-> FALSE, n |-> 0]
    ELSE IF s[1] \in {"+", "-"}
    THEN IF Len(s) = 1 THEN [ok |-> FALSE, n |-> 0]
         ELSE LET r == atoiLoop(s, 2, 0)
              IN  IF r.ok /\ s[1] = "-" THEN [ok |-> TRUE, n |-> 0 - r.n] ELSE r
    ELSE atoiLoop(s, 1, 0)

\* BuildsViewModel.LoadBuilds
LoadBuilds(m, pipeline, job) ==
    Ret([m EXCEPT !.state = buildsStateLoading, !.err = NoError, !.job = job,
                  !.pipeline = pipeline, !.cursor = 0],
        <<Cmd("GetBuilds", "", m.client, pipeline, job, 0)>>)

\* tea.Tick(5*time.Second, ...ClearRerunMessageMsg{})
ClearTick == Cmd("ClearRerunMessageMsg", "", NoName, NoName, NoName, 0)
\* tea.Tick(100*time.Millisecond, ...BuildRerunTickMsg{})
RerunTick == Cmd("BuildRerunTickMsg", "", NoName, NoName, NoName, 0)

\* BuildsViewModel.Update, case tea.KeyMsg
BuildsKey(m, key) ==
    CASE m.state = buildsStateLoading ->
            IF key \in {"q", "esc"}
            THEN Ret(m, <<SwitchViewMsg(ViewJobs, NoName, NoName, NoName)>>)
            ELSE Ret(m, NoCmd)
      [] m.state = buildsStateList ->
            CASE key = "f5" ->
                    IF m.client # NoClient /\ m.pipeline # NoName /\ m.job # NoName
                    THEN LoadBuilds([m EXCEPT !.state = buildsStateLoading], m.pipeline, m.job)
                    ELSE Ret(m, NoCmd)
              [] key \in {"q", "esc"} ->
                    Ret(m, <<SwitchViewMsg(ViewJobs, NoName, NoName, NoName)>>)
              [] key \in {"up", "k"} ->
                    Ret([m EXCEPT !.cursor = IF m.cursor > 0 THEN m.cursor - 1 ELSE m.cursor], NoCmd)
              [] key \in {"down", "j"} ->
                    Ret([m EXCEPT !.cursor = IF m.cursor < Len(m.builds) - 1
                                             THEN m.cursor + 1 ELSE m.cursor], NoCmd)
              [] key = "enter" ->
                    IF Len(m.builds) > 0
                    THEN LET buildNum == Atoi(m.builds[m.cursor + 1].Name)
                         IN  IF ~buildNum.ok
                             THEN Ret([m EXCEPT !.rerunMessage =
                                                  Sprintf("Error: Invalid build number ",
                                                          m.builds[m.cursor + 1].Name)],
                                      <<ClearTick>>)
                             ELSE Ret([m EXCEPT !.state = buildsStateRerunning,
                                                !.rerunMessage = <<"Rerunning build...">>],
                                      <<Cmd("RerunBuildWithOutput", "", m.client, m.pipeline,
                                            m.job, buildNum.n),
                                        RerunTick>>)
                    ELSE Ret(m, NoCmd)
              [] OTHER -> Ret(m, NoCmd)
      [] OTHER ->
            IF key \in {"q", "esc"}
            THEN Ret(m, <<SwitchViewMsg(ViewJobs, NoName, NoName, NoName)>>)
            ELSE Ret(m, NoCmd)

\* what `return m, m.LoadBuilds(...)` can return for "f5": Go leaves open whether the
\* operand m is read before or after the call that writes to it
BuildsKeyReturns(m, key) ==
    {BuildsKey(m, key)} \cup
        IF m.state = buildsStateList /\ key = "f5" /\ BuildsKey(m, key).cmds # NoCmd
        THEN {Ret([m EXCEPT !.state = buildsStateLoading], BuildsKey(m, key).cmds)}
        ELSE {}

\* BuildRerunResultMsg
BuildRerunResultMsg(r, build) ==
    [Success |-> r.Success, Output |-> r.Output, Error |-> r.Error, Build |-> build]

\* a handler that reloads the builds after every rerun the tool could run
BuildsRerunResultReloads(m, msg) ==
    IF msg.Error # NoError
    THEN Ret([m EXCEPT !.state = buildsStateList, !.rerunMessage = Sprintf("Error: ", msg.Error)],
             <<ClearTick>>)
    ELSE Ret([m EXCEPT !.state = buildsStateList,
                       !.rerunMessage = Sprintf(IF msg.Success THEN "Successfully reran build: "
                                                ELSE "Failed to rerun build: ", msg.Output)],
             <<ClearTick, Cmd("GetBuilds.delayed", "", m.client, m.pipeline, m.job, 0)>>)

\* BuildsViewModel.Update, case BuildRerunResultMsg
BuildsRerunResult(m, msg) ==
    IF msg.Error # NoError
    THEN Ret([m EXCEPT !.state = buildsStateList, !.rerunMessage = Sprintf("Error: ", msg.Error)],
             <<ClearTick>>)
    ELSE IF msg.Success
    THEN Ret([m EXCEPT !.state = buildsStateList,
                       !.rerunMessage = Sprintf("Successfully reran build: ", msg.Output)],
             <<ClearTick, Cmd("GetBuilds.delayed", "", m.client, m.pipeline, m.job, 0)>>)
    ELSE Ret([m EXCEPT !.state = buildsStateList,
                       !.rerunMessage = Sprintf("Failed to rerun build: ", msg.Output)],
             <<ClearTick>>)

\* a ticker that never stops
BuildsRerunTickForever(m) == Ret(m, <<RerunTick>>)

\* BuildsViewModel.Update, case BuildRerunTickMsg
BuildsRerunTick(m) ==
    IF m.state = buildsStateRerunning THEN Ret(m, <<RerunTick>>) ELSE Ret(m, NoCmd)

\* BuildsViewModel.Update, case ClearRerunMessageMsg
BuildsClearRerunMessage(m) == Ret([m EXCEPT !.rerunMessage = NoName], NoCmd)

\* BuildsLoadedMsg
BuildsLoadedMsg(builds, err, job, pipeline) ==
    [Builds |-> builds, Error |-> err, Job |-> job, Pipeline |-> pipeline]

\* BuildsViewModel.HandleBuildsLoaded
HandleBuildsLoaded(m, msg) ==
    [m EXCEPT !.builds = msg.Builds, !.err = msg.Error, !.job = msg.Job,
              !.pipeline = msg.Pipeline, !.state = buildsStateList, !.cursor = 0]

----------------------------------------------------------------------------
(* Main menu (MainViewModel) and Authentication view (AuthViewModel) *)

\* len(MainViewModel.choices)
MainChoices == 2

\* MainViewModel.handleSelection: TRUE when the command is tea.Quit
mainQuits(sel) == sel = 1

\* MainViewModel.Update: the selected choice after the key
MainUpdate(sel, key) ==
    CASE key \in {"up", "k"} -> IF sel > 0 THEN sel - 1 ELSE sel
      [] key \in {"down", "j"} -> IF sel < MainChoices - 1 THEN sel + 1 ELSE sel
      [] OTHER -> sel

\* NewAuthViewModel
NewAuthViewModel ==
    [target |-> NoName, client |-> NoClient, authenticating |-> FALSE,
     error |-> NoError, success |-> FALSE]

\* AuthViewModel.SetTarget
SetTarget(m, target, c) ==
    [m EXCEPT !.target = target.Name, !.client = c, !.authenticating = FALSE,
              !.error = NoError, !.success = FALSE]

\* AuthViewModel.StartAuthentication; the command captures the client and the target
StartAuthentication(m) ==
    Ret([m EXCEPT !.authenticating = TRUE, !.error = NoError],
        <<Cmd("LoginInteractive", "", m.target, NoName, NoName, 0)>>)

\* AuthViewModel.Update
AuthUpdate(m, key) ==
    IF m.authenticating THEN Ret(m, NoCmd)
    ELSE CASE key \in {"enter", "y"} -> StartAuthentication(m)
           [] key \in {"n", "esc"} -> Ret(m, <<SwitchViewMsg(ViewTargets, NoName, NoName, NoName)>>)
           [] OTHER -> Ret(m, NoCmd)

\* a handler that keeps the view busy after a failed login
HandleAuthResultStaysBusy(m, msg) ==
    IF msg.Success
    THEN Ret([m EXCEPT !.authenticating = FALSE, !.success = TRUE, !.error = msg.Error],
             <<SwitchViewMsg(ViewPipelines, msg.Target, NoName, NoName)>>)
    ELSE Ret([m EXCEPT !.success = FALSE, !.error = msg.Error], NoCmd)

\* AuthViewModel.HandleAuthResult
HandleAuthResult(m, msg) ==
    LET n == [m EXCEPT !.authenticating = FALSE, !.success = msg.Success, !.error = msg.Error]
    IN  IF n.success THEN Ret(n, <<SwitchViewMsg(ViewPipelines, msg.Target, NoName, NoName)>>)
        ELSE Ret(n, NoCmd)

----------------------------------------------------------------------------
(* Add-Target form (AddTargetViewModel) *)

\* NewAddTargetViewModel
NewAddTargetViewModel ==
    [values |-> <<NoName, NoName, NoName>>, focused |-> 0, err |-> NoError, saving |-> FALSE,
     flyCommand |-> NoName, saveResult |-> NoName]

\* the text the retry and copy keys look for in saveResult
InteractiveAuthRequired ==
    <<"I", "n", "t", "e", "r", "a", "c", "t", "i", "v", "e", " ", "a", "u", "t", "h", "e", "n",
      "t", "i", "c", "a", "t", "i", "o", "n", " ", "r", "e", "q", "u", "i", "r", "e", "d">>

\* a canSubmit that asks for a name only
canSubmitNamed(m) == TrimSpace(m.values[1]) # NoName

\* AddTargetViewModel.canSubmit
canSubmit(m) == \A i \in 1..Len(m.values) : TrimSpace(m.values[i]) # NoName

\* fmt.Sprintf("fly -t %s login -c %s -n %s", name, url, team), the team "main" when the
\* trimmed field is empty
FlyLoginCommand(name, url, team) ==
    <<"fly -t ">> \o name \o <<" login -c ">> \o url \o <<" -n ">>
        \o (IF team = NoName THEN <<"m", "a", "i", "n">> ELSE team)

\* AddTargetViewModel.startSave; the command captures name, url and team
startSave(m) ==
    IF ~canSubmit(m) THEN Ret(m, NoCmd)
    ELSE LET name == TrimSpace(m.values[1])
             url == TrimSpace(m.values[2])
             team == IF TrimSpace(m.values[3]) = NoName THEN <<"m", "a", "i", "n">>
                     ELSE TrimSpace(m.values[3])
         IN  Ret([m EXCEPT !.flyCommand = FlyLoginCommand(name, url, team), !.saving = TRUE,
                           !.err = NoError, !.saveResult = NoName],
                 <<Cmd("startSave", "", name, url, team, 0)>>)

\* the characters a key adds to the focused field: its name, cleaned of what is not printable
KeyText(key) ==
    CASE key = "up" -> <<"u", "p">>
      [] key = "down" -> <<"d", "o", "w", "n">>
      [] key = "f5" -> <<"f", "5">>
      [] OTHER -> <<key>>

\* input branches that do not look at saving
formInputWhileSaving(m, text) ==
    IF m.focused < Len(m.values) /\ m.saveResult = NoName
    THEN [m EXCEPT !.values[m.focused + 1] = m.values[m.focused + 1] \o text]
    ELSE m

\* the input branches of AddTargetViewModel.Update: the key edits the focused field
formInput(m, text) ==
    IF m.focused < Len(m.values) /\ ~m.saving /\ m.saveResult = NoName
    THEN [m EXCEPT !.values[m.focused + 1] = m.values[m.focused + 1] \o text]
    ELSE m

\* the result state in which the retry and copy keys act
showsInteractiveAuth(m) ==
    ~m.saving /\ m.saveResult # NoName /\ Contains(m.saveResult, InteractiveAuthRequired)

\* AddTargetViewModel.Update, case tea.KeyMsg; copied tells whether pbcopy ran without error
AddTargetUpdate(m, key, copied) ==
    CASE key = "tab" ->
            IF ~m.saving /\ m.saveResult = NoName
            THEN Ret([m EXCEPT !.focused = (m.focused + 1) % Len(m.values)], NoCmd)
            ELSE Ret(m, NoCmd)
      [] key = "shift+tab" ->
            IF ~m.saving /\ m.saveResult = NoName
            THEN Ret([m EXCEPT !.focused = (m.focused - 1 + Len(m.values)) % Len(m.values)], NoCmd)
            ELSE Ret(m, NoCmd)
      [] key = "enter" ->
            IF canSubmit(m) /\ ~m.saving /\ m.saveResult = NoName THEN startSave(m)
            ELSE IF m.saveResult # NoName
            THEN Ret(m, <<SwitchViewMsg(ViewTargets, NoName, NoName, NoName)>>)
            ELSE Ret(m, NoCmd)
      [] key = "r" ->
            IF showsInteractiveAuth(m)
            THEN IF TrimSpace(m.values[1]) # NoName
                 THEN Ret([m EXCEPT !.saveResult = NoName, !.err = NoError, !.saving = TRUE],
                          <<Cmd("status", "", TrimSpace(m.values[1]), TrimSpace(m.values[2]),
                                TrimSpace(m.values[3]), 0)>>)
                 ELSE Ret([m EXCEPT !.saveResult = NoName, !.err = NoError], NoCmd)
            ELSE Ret(formInput(m, <<"r">>), NoCmd)
      [] key = "c" ->
            IF showsInteractiveAuth(m)
            THEN IF copied
                 THEN Ret([m EXCEPT !.saveResult =
                              InteractiveAuthRequired \o <<". Command copied to clipboard! Command: ">>
                                 \o FlyLoginCommand(TrimSpace(m.values[1]), TrimSpace(m.values[2]),
                                                    TrimSpace(m.values[3]))], NoCmd)
                 ELSE Ret(m, NoCmd)
            ELSE Ret(formInput(m, <<"c">>), NoCmd)
      [] key = "esc" -> Ret(m, <<SwitchViewMsg(ViewTargets, NoName, NoName, NoName)>>)
      [] key \in {"ctrl+c", "ctrl+v"} -> Ret(m, NoCmd)
      [] key = "backspace" ->
            IF m.focused < Len(m.values) /\ ~m.saving /\ m.saveResult = NoName
               /\ Len(m.values[m.focused + 1]) > 0
            THEN Ret([m EXCEPT !.values[m.focused + 1] =
                                  SubSeq(m.values[m.focused + 1], 1, Len(m.values[m.focused + 1]) - 1)],
                     NoCmd)
            ELSE Ret(m, NoCmd)
      [] key = "ctrl+a" -> Ret(m, NoCmd)
      [] key = "ctrl+u" ->
            IF m.focused < Len(m.values) /\ ~m.saving /\ m.saveResult = NoName
            THEN Ret([m EXCEPT !.values[m.focused + 1] = NoName], NoCmd)
            ELSE Ret(m, NoCmd)
      [] OTHER -> Ret(formInput(m, KeyText(key)), NoCmd)

\* TargetCreateMsg
TargetCreateMsg(success, output, err) == [Success |-> success, Output |-> output, Error |-> err]

\* AddTargetViewModel.Update, case TargetCreateMsg; the command it returns on success is
\* the two-second tick that yields SwitchViewMsg{View: ViewTargets}, and the result text
\* is written without its leading check mark
HandleTargetCreate(m, msg) ==
    IF msg.Error # NoError
    THEN Ret([m EXCEPT !.saving = FALSE, !.err = msg.Error, !.saveResult = NoName], NoCmd)
    ELSE IF msg.Success
    THEN Ret([m EXCEPT !.saving = FALSE, !.err = NoError,
                       !.saveResult = Sprintf("Target created successfully: ", msg.Output)],
             <<SwitchViewMsg(ViewTargets, NoName, NoName, NoName)>>)
    ELSE Ret([m EXCEPT !.saving = FALSE, !.saveResult = NoName,
                       !.err = Sprintf("Failed to create target: ", msg.Output)], NoCmd)

----------------------------------------------------------------------------
(* The user: the keys pressed in each view, by the view the session exercises *)

Foci == {"targets", "addTarget", "pipelines", "jobsSearch", "jobsOps", "resources", "builds", "retarget"}

\* the keys pressed in the Add-Target form
FormKeys == {"r", " ", "tab", "shift+tab", "backspace", "ctrl+u", "enter", "esc", "q"}

\* the keys pressed while the exercised view is in search mode
SearchModeKeys == {"B", "q", "enter", "esc", "backspace", "ctrl+u", "up", "down"}

UserKeys(f, view, searching) ==
    CASE f = "targets" ->
            CASE view = ViewMain -> {"enter", "down", "up", "esc"}
              [] view = ViewTargets ->
                    IF searching THEN SearchModeKeys
                    ELSE {"/", "up", "down", "enter", "d", "a", "f5", "q", "esc"}
              [] OTHER -> {"esc"}
      [] f = "addTarget" ->
            CASE view = ViewMain -> {"enter"}
              [] view = ViewTargets -> {"a", "enter"}
              [] view = ViewAddTarget -> FormKeys
              [] OTHER -> {"esc"}
      [] f = "pipelines" ->
            CASE view = ViewMain -> {"enter"}
              [] view = ViewTargets -> {"enter"}
              [] view = ViewPipelines ->
                    IF searching THEN SearchModeKeys ELSE {"/", "up", "down", "f5", "q"}
              [] view = ViewAuth -> {"enter", "y", "esc"}
              [] OTHER -> {"esc"}
      [] f = "jobsSearch" ->
            CASE view = ViewMain -> {"enter"}
              [] view = ViewTargets -> {"enter"}
              [] view = ViewPipelines -> {"enter", "down"}
              [] view = ViewJobs ->
                    IF searching THEN SearchModeKeys ELSE {"/", "up", "down", "f5", "q"}
              [] OTHER -> {"esc"}
      [] f = "jobsOps" ->
            CASE view = ViewMain -> {"enter"}
              [] view = ViewTargets -> {"enter"}
              [] view = ViewPipelines -> {"enter", "down", "p"}
              [] view = ViewJobs -> {"up", "down", "enter", "x", "f5", "esc"}
              [] OTHER -> {"esc"}
      [] f = "resources" ->
            CASE view = ViewMain -> {"enter"}
              [] view = ViewTargets -> {"enter"}
              [] view = ViewPipelines -> {"r", "down"}
              [] view = ViewResources -> {"up", "down", "enter", "x", "f5", "esc"}
              [] OTHER -> {"esc"}
      [] f = "retarget" ->
            CASE view = ViewMain -> {"enter"}
              [] view = ViewTargets -> {"enter", "down"}
              [] view = ViewPipelines -> {"enter"}
              [] view = ViewJobs -> {"enter"}
              [] OTHER -> {"esc"}
      [] OTHER ->
            CASE view = ViewMain -> {"enter"}
              [] view = ViewTargets -> {"enter"}
              [] view = ViewPipelines -> {"enter"}
              [] view = ViewJobs -> {"b", "down"}
              [] view = ViewBuilds -> {"up", "down", "enter", "f5", "esc"}
              [] OTHER -> {"esc"}

----------------------------------------------------------------------------
(* The router (Model) *)

\* the commands of a handler, as a bag
RECURSIVE CmdBag(_)
CmdBag(cmds) ==
    IF cmds = <<>> THEN EmptyBag ELSE SetToBag({Head(cmds)}) (+) CmdBag(Tail(cmds))

InFlight(c) == c \in BagToSet(pending)
Take(c) == pending (-) SetToBag({c})

\* no list view has been opened yet
NothingEntered == [jobs |-> NoName, resources |-> NoName, builds |-> <<NoName, NoName>>]

\* App.Run: the state after construction. Go ranges over the targets map in any order;
\* the sessions that only pass through the Targets view are those where T2 comes first.
Init ==
    /\ focus \in Foci
    /\ quit = FALSE
    /\ currentView = ViewMain
    /\ currentTarget = NoName
    /\ client = NoClient
    /\ store = StoredTargets
    /\ \E order \in MapOrders(StoredTargets) :
          /\ focus # "targets" => order[1] = T2
          /\ targetsView = NewTargetsViewModel(order)
    /\ pipelinesView = NewPipelinesViewModel
    /\ jobsView = NewJobsViewModel
    /\ resourcesView = NewResourcesViewModel
    /\ buildsView = NewBuildsViewModel
    /\ authView = NewAuthViewModel
    /\ mainView = 0
    /\ addTargetView = NewAddTargetViewModel
    /\ flyrc = StoredTargets
    /\ pending = EmptyBag
    /\ entered = NothingEntered

\* the active view is in search mode
SearchActive ==
    \/ currentView = ViewTargets /\ targetsView.searchMode
    \/ currentView = ViewPipelines /\ pipelinesView.searchMode
    \/ currentView = ViewJobs /\ jobsView.searchMode

\* the search query the active view would append a typed character to
ActiveQuery ==
    CASE currentView = ViewTargets /\ targetsView.searchMode -> targetsView.searchQuery
      [] currentView = ViewPipelines /\ pipelinesView.searchMode -> pipelinesView.searchQuery
      [] currentView = ViewJobs /\ jobsView.searchMode -> jobsView.searchQuery
      [] OTHER -> NoName

\* the characters typed into the Add-Target form so far
FormLength ==
    Len(addTargetView.values[1]) + Len(addTargetView.values[2]) + Len(addTargetView.values[3])

\* the keys the user presses next
CanPress(key) ==
    /\ ~quit
    /\ key \in UserKeys(focus, currentView, SearchActive)
    /\ (BagCardinality(pending) < MaxInFlight \/ key \in {"up", "down"})
    /\ key \in Runes => Len(ActiveQuery) < MaxQuery
    /\ (currentView = ViewAddTarget /\ key \in Runes \cup {" "}) => FormLength < MaxForm

\* tea.Quit: the program exits, and its state is gone with it
Exit ==
    /\ quit' = TRUE
    /\ currentView' = ViewMain
    /\ currentTarget' = NoName
    /\ client' = NoClient
    /\ targetsView' = NewTargetsViewModel(<<>>)
    /\ pipelinesView' = NewPipelinesViewModel
    /\ jobsView' = NewJobsViewModel
    /\ resourcesView' = NewResourcesViewModel
    /\ buildsView' = NewBuildsViewModel
    /\ authView' = NewAuthViewModel
    /\ mainView' = 0
    /\ addTargetView' = NewAddTargetViewModel
    /\ pending' = EmptyBag
    /\ entered' = NothingEntered
    /\ UNCHANGED <<focus, store, flyrc>>

\* Model.Update, case tea.KeyMsg: "ctrl+c", "q"
KeyQuit(key) ==
    /\ CanPress(key)
    /\ key \in {"ctrl+c", "q"}
    /\ Exit

\* a back edge that leads every view to the main menu
BackToRoot(view) == ViewMain

\* the view "esc" goes back to, hardcoded per view
BackOf(view) ==
    CASE view = ViewBuilds -> ViewJobs
      [] view = ViewResources -> ViewPipelines
      [] view = ViewJobs -> ViewPipelines
      [] view = ViewPipelines -> ViewTargets
      [] view = ViewAddTarget -> ViewTargets
      [] view = ViewAuth -> ViewTargets
      [] OTHER -> view

\* an "esc" that goes back and also cancels the search of the view it leaves
KeyEscCancelsSearch(key) ==
    /\ CanPress(key)
    /\ key = "esc"
    /\ BackOf(currentView) # currentView
    /\ currentView' = BackOf(currentView)
    /\ pipelinesView' = IF currentView = ViewPipelines /\ pipelinesView.searchMode
                        THEN pipelinesSearchKey(pipelinesView, key) ELSE pipelinesView
    /\ jobsView' = IF currentView = ViewJobs /\ jobsView.searchMode
                   THEN jobsSearchKey(jobsView, key) ELSE jobsView
    /\ UNCHANGED <<focus, entered, quit, currentTarget, client, store, targetsView,
                   resourcesView, buildsView, authView, mainView, pending>>
    /\ UNCHANGED <<addTargetView, flyrc>>

\* Model.Update, case tea.KeyMsg: "esc" in a view that has a back edge
KeyEsc(key) ==
    /\ CanPress(key)
    /\ key = "esc"
    /\ BackOf(currentView) # currentView
    /\ currentView' = BackOf(currentView)
    /\ UNCHANGED <<focus, entered, quit, currentTarget, client, store, targetsView, pipelinesView,
                   jobsView, resourcesView, buildsView, authView, mainView, pending>>
    /\ UNCHANGED <<addTargetView, flyrc>>

\* ConfigManager.RemoveTarget for the names "d" hands it: the target leaves the map, and
\* SaveConfig writes the map to the file or fails
RemoveTargets(names) ==
    /\ store' = {t \in store : t.Name \notin names}
    /\ IF store' = store THEN flyrc' = flyrc ELSE flyrc' \in {store', flyrc}

\* Model.handleViewUpdate reached from Model.Update, case tea.KeyMsg
KeyToView(key) ==
    /\ CanPress(key)
    /\ key \notin {"ctrl+c", "q"}
    /\ ~(key = "esc" /\ BackOf(currentView) # currentView)
    /\ ~(currentView = ViewMain /\ key = "enter" /\ mainQuits(mainView))
    /\ CASE currentView = ViewMain ->
              /\ mainView' = MainUpdate(mainView, key)
              /\ pending' = IF key = "enter"
                            THEN pending (+) SetToBag({SwitchViewMsg(ViewTargets, NoName, NoName, NoName)})
                            ELSE pending
              /\ UNCHANGED <<quit, authView, store, flyrc, targetsView, pipelinesView, jobsView, resourcesView,
                             buildsView, addTargetView>>
         [] currentView = ViewTargets ->
              /\ targetsView' = TargetsUpdate(targetsView, key).m
              /\ pending' = pending (+) CmdBag(TargetsUpdate(targetsView, key).cmds)
              /\ RemoveTargets(TargetsRemoved(targetsView, key))
              /\ UNCHANGED <<quit, authView, pipelinesView, jobsView, resourcesView, buildsView, mainView,
                             addTargetView>>
         [] currentView = ViewPipelines ->
              /\ pipelinesView' = PipelinesUpdate(pipelinesView, key).m
              /\ pending' = pending (+) CmdBag(PipelinesUpdate(pipelinesView, key).cmds)
              /\ UNCHANGED <<quit, authView, store, flyrc, targetsView, jobsView, resourcesView, buildsView,
                             mainView, addTargetView>>
         [] currentView = ViewJobs ->
              /\ jobsView' = JobsUpdate(jobsView, key).m
              /\ pending' = pending (+) CmdBag(JobsUpdate(jobsView, key).cmds)
              /\ UNCHANGED <<quit, authView, store, flyrc, targetsView, pipelinesView, resourcesView, buildsView,
                             mainView, addTargetView>>
         [] currentView = ViewResources ->
              /\ resourcesView' = ResourcesUpdate(resourcesView, key).m
              /\ pending' = pending (+) CmdBag(ResourcesUpdate(resourcesView, key).cmds)
              /\ UNCHANGED <<quit, authView, store, flyrc, targetsView, pipelinesView, jobsView, buildsView,
                             mainView, addTargetView>>
         [] currentView = ViewBuilds ->
              /\ \E r \in BuildsKeyReturns(buildsView, key) :
                    /\ buildsView' = r.m
                    /\ pending' = pending (+) CmdBag(r.cmds)
              /\ UNCHANGED <<quit, authView, store, flyrc, targetsView, pipelinesView, jobsView, resourcesView,
                             mainView, addTargetView>>
         [] currentView = ViewAddTarget ->
              /\ \E copied \in BOOLEAN :
                    /\ addTargetView' = AddTargetUpdate(addTargetView, key, copied).m
                    /\ pending' = pending (+) CmdBag(AddTargetUpdate(addTargetView, key, copied).cmds)
              /\ UNCHANGED <<quit, authView, store, flyrc, targetsView, pipelinesView, jobsView, resourcesView,
                             buildsView, mainView>>
         [] currentView = ViewAuth ->
              /\ authView' = AuthUpdate(authView, key).m
              /\ pending' = pending (+) CmdBag(AuthUpdate(authView, key).cmds)
              /\ UNCHANGED <<quit, store, flyrc, targetsView, pipelinesView, jobsView, resourcesView,
                             buildsView, mainView, addTargetView>>
         [] OTHER ->
              UNCHANGED <<quit, authView, store, flyrc, targetsView, pipelinesView, jobsView, resourcesView,
                          buildsView, mainView, addTargetView, pending>>
    /\ UNCHANGED <<focus, entered, currentView, currentTarget, client>>

\* Model.handleViewUpdate, case ViewMain, "enter" on the Exit choice: tea.Quit
KeyMainExit(key) ==
    /\ CanPress(key)
    /\ currentView = ViewMain /\ key = "enter" /\ mainQuits(mainView)
    /\ Exit

\* Model.Update, case tea.KeyMsg
KeyMsg(key) == KeyQuit(key) \/ KeyEsc(key) \/ KeyToView(key) \/ KeyMainExit(key)

\* a router that detaches the client when the message names no target
ClientOfMessage(msg) == IF msg.target # NoName THEN msg.target ELSE NoClient

\* concourse.NewClient(msg.Target) when msg.Target != ""
ClientAfter(msg) == IF msg.target # NoName THEN msg.target ELSE client

\* Model.Update, case SwitchViewMsg (with Model.handleViewSwitch)
DeliverSwitchView(c) ==
    /\ ~quit /\ InFlight(c) /\ c.kind = "SwitchViewMsg"
    /\ currentView' = c.view
    /\ currentTarget' = c.target
    /\ client' = ClientAfter(c)
    /\ IF c.view = ViewBuilds /\ c.job # NoName /\ c.pipeline # NoName /\ ClientAfter(c) # NoClient
       THEN /\ buildsView' = LoadBuilds([buildsView EXCEPT !.client = ClientAfter(c)],
                                        c.pipeline, c.job).m
            /\ pending' = Take(c) (+) CmdBag(LoadBuilds([buildsView EXCEPT !.client = ClientAfter(c)],
                                                        c.pipeline, c.job).cmds)
            /\ entered' = [entered EXCEPT !.builds = <<c.pipeline, c.job>>]
            /\ UNCHANGED <<pipelinesView, jobsView, resourcesView>>
       ELSE CASE c.view = ViewPipelines /\ ClientAfter(c) # NoClient ->
                    /\ pipelinesView' = LoadPipelines(pipelinesView, ClientAfter(c)).m
                    /\ pending' = Take(c) (+) CmdBag(LoadPipelines(pipelinesView, ClientAfter(c)).cmds)
                    /\ UNCHANGED <<entered, jobsView, resourcesView, buildsView>>
              [] c.view = ViewJobs /\ ClientAfter(c) # NoClient
                     /\ GetSelectedPipeline(pipelinesView) # NoName ->
                    /\ jobsView' = [jobsView EXCEPT !.client = ClientAfter(c)]
                    /\ pending' = Take(c) (+) CmdBag(LoadJobs(jobsView, ClientAfter(c),
                                                              GetSelectedPipeline(pipelinesView)))
                    /\ entered' = [entered EXCEPT !.jobs = GetSelectedPipeline(pipelinesView)]
                    /\ UNCHANGED <<pipelinesView, resourcesView, buildsView>>
              [] c.view = ViewResources /\ ClientAfter(c) # NoClient
                     /\ GetSelectedPipeline(pipelinesView) # NoName ->
                    /\ resourcesView' = [resourcesView EXCEPT !.client = ClientAfter(c)]
                    /\ pending' = Take(c) (+) CmdBag(LoadResources(resourcesView, ClientAfter(c),
                                                                   GetSelectedPipeline(pipelinesView)))
                    /\ entered' = [entered EXCEPT !.resources = GetSelectedPipeline(pipelinesView)]
                    /\ UNCHANGED <<pipelinesView, jobsView, buildsView>>
              [] OTHER ->
                    /\ pending' = Take(c)
                    /\ UNCHANGED <<entered, pipelinesView, jobsView, resourcesView, buildsView>>
    /\ UNCHANGED <<focus, quit, store, targetsView, authView, mainView>>
    /\ UNCHANGED <<addTargetView, flyrc>>

\* what Client.GetPipelines can return: anything in the session that exercises the
\* Pipelines view, one list in the others
PipelinesResults ==
    IF focus = "pipelines"
    THEN {PipelinesLoadedMsg(l, NoError) : l \in PipelineLists}
            \cup {PipelinesLoadedMsg(<<>>, e) : e \in LoadErrors}
    ELSE {PipelinesLoadedMsg(<<P3, P1>>, NoError)}

\* Model.Update, case PipelinesLoadedMsg
DeliverPipelinesLoaded(c, msg) ==
    /\ ~quit /\ InFlight(c) /\ c.kind = "GetPipelines"
    /\ msg \in PipelinesResults
    /\ pending' = Take(c)
    /\ IF IsAuthError(msg.Error) /\ currentTarget # NoName
          /\ \E t \in store : t.Name = currentTarget
       THEN /\ authView' = SetTarget(authView, CHOOSE t \in store : t.Name = currentTarget, client)
            /\ currentView' = ViewAuth
            /\ UNCHANGED pipelinesView
       ELSE /\ pipelinesView' = HandlePipelinesLoaded(pipelinesView, msg)
            /\ UNCHANGED <<authView, currentView>>
    /\ UNCHANGED <<focus, entered, quit, currentTarget, client, store, targetsView, jobsView,
                   resourcesView, buildsView, mainView>>
    /\ UNCHANGED <<addTargetView, flyrc>>

\* what Client.GetJobs(pipeline) can return: anything in the sessions that exercise the
\* Jobs view, one list in the others
JobsResults(pipeline) ==
    IF focus \in {"jobsSearch", "jobsOps"}
    THEN {JobsLoadedMsg(l, NoError, pipeline) : l \in JobLists(pipeline)}
            \cup {JobsLoadedMsg(<<>>, e, pipeline) : e \in LoadErrors}
    ELSE {JobsLoadedMsg(<<Job(pipeline, <<"a", "b">>), Job(pipeline, <<"B", "b">>)>>, NoError, pipeline)}

\* Model.Update, case JobsLoadedMsg
DeliverJobsLoaded(c, msg) ==
    /\ ~quit /\ InFlight(c) /\ c.kind = "GetJobs"
    /\ msg \in JobsResults(c.pipeline)
    /\ pending' = Take(c)
    /\ jobsView' = HandleJobsLoaded(jobsView, msg)
    /\ UNCHANGED <<focus, entered, quit, currentView, currentTarget, client, store, targetsView,
                   pipelinesView, resourcesView, buildsView, authView, mainView>>
    /\ UNCHANGED <<addTargetView, flyrc>>

\* what the command of LoadResources can return
ResourcesResults(pipeline) ==
    {ResourcesLoadedMsg(l, NoError, pipeline, FALSE) : l \in ResourceLists(pipeline)}
        \cup {ResourcesLoadedMsg(<<>>, e, pipeline, FALSE) : e \in LoadErrors}

\* what the command of ReloadResources can return when Client.GetResources succeeds
ResourcesReloadResults(pipeline) ==
    {ResourcesLoadedMsg(l, NoError, NoName, TRUE) : l \in ResourceLists(pipeline)}

\* Model.Update, case ResourcesLoadedMsg
DeliverResourcesLoaded(c, msg) ==
    /\ ~quit /\ InFlight(c)
    /\ \/ c.kind = "GetResources" /\ msg \in ResourcesResults(c.pipeline)
       \/ c.kind = "GetResources.reload" /\ msg \in ResourcesReloadResults(c.pipeline)
    /\ pending' = Take(c)
    /\ resourcesView' = HandleResourcesLoaded(resourcesView, msg)
    /\ UNCHANGED <<focus, entered, quit, currentView, currentTarget, client, store, targetsView,
                   pipelinesView, jobsView, buildsView, authView, mainView>>
    /\ UNCHANGED <<addTargetView, flyrc>>

\* the command of ReloadResources returns nil when Client.GetResources fails: no message
DeliverNil(c) ==
    /\ ~quit /\ InFlight(c) /\ c.kind = "GetResources.reload"
    /\ pending' = Take(c)
    /\ UNCHANGED <<focus, entered, quit, currentView, currentTarget, client, store, targetsView,
                   pipelinesView, jobsView, resourcesView, buildsView, authView, mainView>>
    /\ UNCHANGED <<addTargetView, flyrc>>

\* what Client.GetBuilds can return, as the message the command builds from it
BuildsResults(pipeline, job) ==
    {BuildsLoadedMsg(l, NoError, job, pipeline) : l \in BuildLists(pipeline, job)}
        \cup {BuildsLoadedMsg(<<>>, e, job, pipeline) : e \in LoadErrors}

\* Model.Update, case BuildsLoadedMsg
DeliverBuildsLoaded(c, msg) ==
    /\ ~quit /\ InFlight(c) /\ c.kind \in {"GetBuilds", "GetBuilds.delayed"}
    /\ msg \in BuildsResults(c.pipeline, c.job)
    /\ pending' = Take(c)
    /\ buildsView' = HandleBuildsLoaded(buildsView, msg)
    /\ UNCHANGED <<focus, entered, quit, currentView, currentTarget, client, store, targetsView,
                   pipelinesView, jobsView, resourcesView, authView, mainView>>
    /\ UNCHANGED <<addTargetView, flyrc>>

\* Model.Update, case TriggerJobRequestMsg
DeliverTriggerJobRequest(c) ==
    /\ ~quit /\ InFlight(c) /\ c.kind = "TriggerJobRequestMsg"
    /\ IF client # NoClient
       THEN /\ jobsView' = StartJobTrigger(jobsView, Slash(c.pipeline, c.job))
            /\ pending' = Take(c) (+) SetToBag({Cmd("TriggerJobWithOutput", "", client,
                                                    c.pipeline, c.job, 0)})
       ELSE /\ pending' = Take(c)
            /\ UNCHANGED jobsView
    /\ UNCHANGED <<focus, entered, quit, currentView, currentTarget, client, store, targetsView,
                   pipelinesView, resourcesView, buildsView, authView, mainView>>
    /\ UNCHANGED <<addTargetView, flyrc>>

\* the runtime runs the command of a TriggerJobRequestMsg or CheckResourceRequestMsg in
\* its own goroutine: the closure holds the router by pointer and reads m.client when it
\* runs, at any moment after the Update that returned it
RunOperation(c) ==
    /\ ~quit /\ InFlight(c)
    /\ c.kind \in {"TriggerJobWithOutput", "CheckResourceWithOutput"}
    /\ c.ran = NoName
    /\ pending' = Take(c) (+) SetToBag({[c EXCEPT !.ran = client]})
    /\ UNCHANGED <<focus, entered, quit, currentView, currentTarget, client, store, targetsView,
                   pipelinesView, jobsView, resourcesView, buildsView, authView, mainView>>
    /\ UNCHANGED <<addTargetView, flyrc>>

\* TriggerJobMsg
TriggerJobMsg(job, r) == [Job |-> job, Output |-> r.Output, Error |-> r.Error, Success |-> r.Success]

\* Model.Update, case TriggerJobMsg
DeliverTriggerJob(c, run) ==
    /\ ~quit /\ InFlight(c) /\ c.kind = "TriggerJobWithOutput" /\ c.ran # NoName
    /\ run \in TriggerRuns
    /\ pending' = Take(c)
    /\ jobsView' = HandleTriggerJob(jobsView,
                                    TriggerJobMsg(Slash(c.pipeline, c.job), TriggerJobWithOutput(run)))
    /\ UNCHANGED <<focus, entered, quit, currentView, currentTarget, client, store, targetsView,
                   pipelinesView, resourcesView, buildsView, authView, mainView>>
    /\ UNCHANGED <<addTargetView, flyrc>>

\* Model.Update, case CheckResourceRequestMsg
DeliverCheckResourceRequest(c) ==
    /\ ~quit /\ InFlight(c) /\ c.kind = "CheckResourceRequestMsg"
    /\ IF client # NoClient
       THEN /\ resourcesView' = StartResourceCheck(resourcesView, Slash(c.pipeline, c.job))
            /\ pending' = Take(c) (+) SetToBag({Cmd("CheckResourceWithOutput", "", client,
                                                    c.pipeline, c.job, 0)})
       ELSE /\ pending' = Take(c)
            /\ UNCHANGED resourcesView
    /\ UNCHANGED <<focus, entered, quit, currentView, currentTarget, client, store, targetsView,
                   pipelinesView, jobsView, buildsView, authView, mainView>>
    /\ UNCHANGED <<addTargetView, flyrc>>

\* ResourceCheckMsg
ResourceCheckMsg(resource, r) ==
    [Resource |-> resource, Output |-> r.Output, Error |-> r.Error, Success |-> r.Success]

\* Model.Update, case ResourceCheckMsg
DeliverResourceCheck(c, run) ==
    /\ ~quit /\ InFlight(c) /\ c.kind = "CheckResourceWithOutput" /\ c.ran # NoName
    /\ run \in CheckRuns
    /\ LET r == HandleResourceCheck(resourcesView,
                    ResourceCheckMsg(Slash(c.pipeline, c.job), CheckResourceWithOutput(run)))
       IN  /\ resourcesView' = r.m
           /\ pending' = Take(c) (+) CmdBag(r.cmds)
    /\ UNCHANGED <<focus, entered, quit, currentView, currentTarget, client, store, targetsView,
                   pipelinesView, jobsView, buildsView, authView, mainView>>
    /\ UNCHANGED <<addTargetView, flyrc>>

\* Model.Update, case ReloadResourcesMsg
DeliverReloadResources(c) ==
    /\ ~quit /\ InFlight(c) /\ c.kind = "ReloadResourcesMsg"
    /\ pending' = IF client # NoClient
                  THEN Take(c) (+) CmdBag(ReloadResources(resourcesView, client))
                  ELSE Take(c)
    /\ UNCHANGED <<focus, entered, quit, currentView, currentTarget, client, store, targetsView,
                   pipelinesView, jobsView, resourcesView, buildsView, authView, mainView>>
    /\ UNCHANGED <<addTargetView, flyrc>>

\* a router that brings the Builds view to the front when a rerun result arrives
DeliverBuildRerunResultToFront(c, run) ==
    /\ ~quit /\ InFlight(c) /\ c.kind = "RerunBuildWithOutput"
    /\ run \in RerunRuns
    /\ LET r == BuildsRerunResult(buildsView, BuildRerunResultMsg(RerunBuildWithOutput(run), c.build))
       IN  /\ buildsView' = r.m
           /\ pending' = Take(c) (+) CmdBag(r.cmds)
    /\ currentView' = ViewBuilds
    /\ UNCHANGED <<focus, entered, quit, currentTarget, client, store, targetsView,
                   pipelinesView, jobsView, resourcesView, authView, mainView>>
    /\ UNCHANGED <<addTargetView, flyrc>>

\* Model.Update, case BuildRerunResultMsg
DeliverBuildRerunResult(c, run) ==
    /\ ~quit /\ InFlight(c) /\ c.kind = "RerunBuildWithOutput"
    /\ run \in RerunRuns
    /\ LET r == BuildsRerunResult(buildsView, BuildRerunResultMsg(RerunBuildWithOutput(run), c.build))
       IN  /\ buildsView' = r.m
           /\ pending' = Take(c) (+) CmdBag(r.cmds)
    /\ UNCHANGED <<focus, entered, quit, currentView, currentTarget, client, store, targetsView,
                   pipelinesView, jobsView, resourcesView, authView, mainView>>
    /\ UNCHANGED <<addTargetView, flyrc>>

\* Model.Update, case BuildRerunTickMsg
DeliverBuildRerunTick(c) ==
    /\ ~quit /\ InFlight(c) /\ c.kind = "BuildRerunTickMsg"
    /\ buildsView' = BuildsRerunTick(buildsView).m
    /\ pending' = Take(c) (+) CmdBag(BuildsRerunTick(buildsView).cmds)
    /\ UNCHANGED <<focus, entered, quit, currentView, currentTarget, client, store, targetsView,
                   pipelinesView, jobsView, resourcesView, authView, mainView>>
    /\ UNCHANGED <<addTargetView, flyrc>>

\* Model.Update, case ClearRerunMessageMsg
DeliverClearRerunMessage(c) ==
    /\ ~quit /\ InFlight(c) /\ c.kind = "ClearRerunMessageMsg"
    /\ buildsView' = BuildsClearRerunMessage(buildsView).m
    /\ pending' = Take(c)
    /\ UNCHANGED <<focus, entered, quit, currentView, currentTarget, client, store, targetsView,
                   pipelinesView, jobsView, resourcesView, authView, mainView>>
    /\ UNCHANGED <<addTargetView, flyrc>>

\* what the command of StartAuthentication can return: Client.LoginInteractive ran
\* without error, or the login ended with an error
AuthResults(c) ==
    {[Success |-> TRUE, Error |-> NoError, Target |-> c.target],
     [Success |-> FALSE, Error |-> ErrExitStatus, Target |-> c.target]}

\* Model.Update, case AuthenticationMsg
DeliverAuthentication(c, msg) ==
    /\ ~quit /\ InFlight(c) /\ c.kind = "LoginInteractive"
    /\ msg \in AuthResults(c)
    /\ authView' = HandleAuthResult(authView, msg).m
    /\ pending' = Take(c) (+) CmdBag(HandleAuthResult(authView, msg).cmds)
    /\ UNCHANGED <<focus, entered, quit, currentView, currentTarget, client, store, targetsView,
                   pipelinesView, jobsView, resourcesView, buildsView, mainView, addTargetView,
                   flyrc>>

\* Model.Update, a message of no case (the string of togglePipeline): return m, nil
DeliverOther(c) ==
    /\ ~quit /\ InFlight(c) /\ c.kind = "string"
    /\ pending' = Take(c)
    /\ UNCHANGED <<focus, entered, quit, currentView, currentTarget, client, store, targetsView,
                   pipelinesView, jobsView, resourcesView, buildsView, authView, mainView>>
    /\ UNCHANGED <<addTargetView, flyrc>>

\* what the command of startSave and the command of the retry key can return, with the
\* configuration file the tool leaves behind. startSave: fly status reported a login (it
\* does so only for a target of the file), or fly login failed, or fly login succeeded and
\* wrote its target to the file. Retry: fly status reported a login, or did not know the
\* target, or anything else.
CreateOutcomes(c) ==
    LET known == {t \in flyrc : t.Name = c.target}
        titled(text) == <<"Target '">> \o c.target \o <<text>>
    IN  IF c.kind = "startSave"
        THEN {[msg |-> TargetCreateMsg(TRUE, titled("' already exists and is authenticated"), NoError),
               file |-> flyrc] : t \in known}
             \cup {[msg |-> TargetCreateMsg(FALSE, Sprintf("Failed to create target: ", err), err),
                    file |-> flyrc] : err \in {ErrExec, ErrExitStatus}}
             \cup {[msg |-> TargetCreateMsg(TRUE, titled("' created successfully!"), NoError),
                    file |-> (flyrc \ known) \cup {Target(c.target, c.pipeline, c.job)}]}
        ELSE {[msg |-> TargetCreateMsg(TRUE, titled("' is now authenticated and ready to use!"),
                                       NoError),
               file |-> flyrc] : t \in known}
             \cup {[msg |-> TargetCreateMsg(FALSE, titled("' not found."), NoError), file |-> flyrc],
                   [msg |-> TargetCreateMsg(FALSE, titled("' exists but authentication is still pending."),
                                            NoError), file |-> flyrc]}

\* Model.Update, case TargetCreateMsg
DeliverTargetCreate(c, out) ==
    /\ ~quit /\ InFlight(c) /\ c.kind \in {"startSave", "status"}
    /\ out \in CreateOutcomes(c)
    /\ flyrc' = out.file
    /\ addTargetView' = HandleTargetCreate(addTargetView, out.msg).m
    /\ pending' = Take(c) (+) CmdBag(HandleTargetCreate(addTargetView, out.msg).cmds)
    /\ IF out.msg.Success
       THEN \E order \in MapOrders(store) : targetsView' = NewTargetsViewModel(order)
       ELSE UNCHANGED targetsView
    /\ UNCHANGED <<focus, entered, quit, currentView, currentTarget, client, store, pipelinesView,
                   jobsView, resourcesView, buildsView, authView, mainView>>

\* the clear messages Model.Update routes to each view
ClearKinds(view) ==
    CASE view = ViewBuilds -> {"ClearRerunMessageMsg"}
      [] OTHER -> {}

\* every key name the user presses
Keys == UNION {UserKeys(f, v, b) : f \in Foci, b \in BOOLEAN,
                                   v \in {ViewMain, ViewTargets, ViewPipelines, ViewJobs,
                                          ViewResources, ViewBuilds, ViewAddTarget, ViewAuth}}

Next ==
    \/ \E key \in Keys : KeyQuit(key)
    \/ \E key \in Keys : KeyEsc(key)
    \/ \E key \in Keys : KeyToView(key)
    \/ \E key \in Keys : KeyMainExit(key)
    \/ \E c \in BagToSet(pending) : DeliverSwitchView(c)
    \/ \E c \in BagToSet(pending), msg \in PipelinesResults : DeliverPipelinesLoaded(c, msg)
    \/ \E c \in BagToSet(pending) : \E msg \in JobsResults(c.pipeline) : DeliverJobsLoaded(c, msg)
    \/ \E c \in BagToSet(pending) :
         \E msg \in ResourcesResults(c.pipeline) \cup ResourcesReloadResults(c.pipeline) :
            DeliverResourcesLoaded(c, msg)
    \/ \E c \in BagToSet(pending) : DeliverNil(c)
    \/ \E c \in BagToSet(pending) : \E msg \in BuildsResults(c.pipeline, c.job) :
            DeliverBuildsLoaded(c, msg)
    \/ \E c \in BagToSet(pending) : DeliverTriggerJobRequest(c)
    \/ \E c \in BagToSet(pending) : RunOperation(c)
    \/ \E c \in BagToSet(pending), run \in TriggerRuns : DeliverTriggerJob(c, run)
    \/ \E c \in BagToSet(pending) : DeliverCheckResourceRequest(c)
    \/ \E c \in BagToSet(pending), run \in CheckRuns : DeliverResourceCheck(c, run)
    \/ \E c \in BagToSet(pending) : DeliverReloadResources(c)
    \/ \E c \in BagToSet(pending), run \in RerunRuns : DeliverBuildRerunResult(c, run)
    \/ \E c \in BagToSet(pending) : DeliverBuildRerunTick(c)
    \/ \E c \in BagToSet(pending) : DeliverClearRerunMessage(c)
    \/ \E c \in BagToSet(pending) : DeliverOther(c)
    \/ \E c \in BagToSet(pending) : \E out \in CreateOutcomes(c) : DeliverTargetCreate(c, out)
    \/ \E c \in BagToSet(pending) : \E msg \in AuthResults(c) : DeliverAuthentication(c, msg)

Spec == Init /\ [][Next]_vars

\* the runtime fires every tea.Tick it was handed: a BuildRerunTickMsg in flight is
\* delivered after its 100 ms
TickSpec == Spec /\ WF_vars(\E c \in BagToSet(pending) : DeliverBuildRerunTick(c))

----------------------------------------------------------------------------
(* Properties *)

SeqElems(s) == {s[i] : i \in 1..Len(s)}

\* selected is an index of list, or list is empty and selected is 0
InBounds(selected, list) ==
    \/ 0 <= selected /\ selected < Len(list)
    \/ Len(list) = 0 /\ selected = 0

\* q occurs in s when case is disregarded
CISubstring(s, q) ==
    \E i \in 1..(Len(s) - Len(q) + 1) :
        \A k \in 1..Len(q) : LowerChar(s[i + k - 1]) = LowerChar(q[k])

TargetsMatching(m) ==
    SelectSeq(m.targets, LAMBDA t : \/ CISubstring(t.Name, m.searchQuery)
                                    \/ CISubstring(t.API, m.searchQuery)
                                    \/ CISubstring(t.Team, m.searchQuery))
PipelinesMatching(m) ==
    SelectSeq(m.pipelines, LAMBDA p : \/ CISubstring(p.Name, m.searchQuery)
                                      \/ CISubstring(p.TeamName, m.searchQuery))
JobsMatching(m) ==
    SelectSeq(m.jobs, LAMBDA j : \/ CISubstring(j.Name, m.searchQuery)
                                 \/ CISubstring(j.PipelineName, m.searchQuery)
                                 \/ CISubstring(j.TeamName, m.searchQuery))

\* the commands of the given kinds that are in flight
OpsInFlight(kinds) ==
    BagCardinality([c \in {d \in BagToSet(pending) : d.kind \in kinds} |-> pending[c]])

\* C1: in the Targets, Pipelines, Jobs, Resources and Builds views the selected index is
\* always an index of the displayed list (the filtered list where the view has one), or
\* that list is empty and the index is 0.
C1_SelectedInBounds ==
    /\ InBounds(targetsView.selected, targetsView.filteredTargets)
    /\ InBounds(pipelinesView.selected, pipelinesView.filteredPipelines)
    /\ InBounds(jobsView.selected, jobsView.filteredJobs)
    /\ InBounds(resourcesView.selected, resourcesView.resources)
    /\ InBounds(buildsView.cursor, buildsView.builds)

\* a query has cut the pipelines list short and the selection is below its first row
C1_Witness ==
    /\ pipelinesView.searchQuery # NoName
    /\ Len(pipelinesView.filteredPipelines) < Len(pipelinesView.pipelines)
    /\ pipelinesView.selected = Len(pipelinesView.filteredPipelines) - 1
    /\ pipelinesView.selected > 0

\* C2: once every list load issued for a view has been processed, the Jobs, Resources
\* and Builds views show the entities of the context the user opened last, under that
\* context's name: a result for an earlier context never replaces them. (The reload
\* message of the Resources view carries no pipeline name, so for that view the
\* property speaks of the listed entities.)
C2_StaleLoadIgnored ==
    /\ (entered.jobs # NoName /\ OpsInFlight({"GetJobs"}) = 0)
         => /\ jobsView.pipeline = entered.jobs
            /\ \A i \in 1..Len(jobsView.jobs) : jobsView.jobs[i].PipelineName = entered.jobs
    /\ (entered.resources # NoName /\ OpsInFlight({"GetResources", "GetResources.reload"}) = 0)
         => \A i \in 1..Len(resourcesView.resources) :
                resourcesView.resources[i].PipelineName = entered.resources
    /\ (entered.builds # <<NoName, NoName>> /\ OpsInFlight({"GetBuilds", "GetBuilds.delayed"}) = 0)
         => /\ buildsView.pipeline = entered.builds[1]
            /\ buildsView.job = entered.builds[2]
            /\ \A i \in 1..Len(buildsView.builds) :
                  /\ buildsView.builds[i].PipelineName = entered.builds[1]
                  /\ buildsView.builds[i].JobName = entered.builds[2]

\* C3: in the Jobs, Resources and Builds views at most one operation of a kind (trigger,
\* check, rerun) dispatched from the view is awaiting its result.
C3_SingleOperationInFlight ==
    /\ OpsInFlight({"TriggerJobRequestMsg", "TriggerJobWithOutput"}) <= 1
    /\ OpsInFlight({"CheckResourceRequestMsg", "CheckResourceWithOutput"}) <= 1
    /\ OpsInFlight({"RerunBuildWithOutput"}) <= 1

JobsBanner == jobsView.triggerResult # NoName \/ jobsView.triggerError # NoError
ResourcesBanner == resourcesView.checkResult # NoName \/ resourcesView.checkError # NoError
BuildsBanner == buildsView.rerunMessage \notin {NoName, <<"Rerunning build...">>}

\* C4: while a view shows the result or error banner of an operation, a message that
\* clears the banner is scheduled for that view.
C4_BannerHasClearScheduled ==
    /\ JobsBanner => OpsInFlight(ClearKinds(ViewJobs)) > 0
    /\ ResourcesBanner => OpsInFlight(ClearKinds(ViewResources)) > 0
    /\ BuildsBanner => OpsInFlight(ClearKinds(ViewBuilds)) > 0

\* C5: every step that changes the search query of the Targets, Pipelines or Jobs view
\* leaves the filtered list equal to the entries of the full list, in their order, one
\* of whose searched fields contains the query with case disregarded (every entry when
\* the query is empty).
C5_FilterFollowsQuery ==
    [][/\ targetsView'.searchQuery # targetsView.searchQuery
            => targetsView'.filteredTargets = TargetsMatching(targetsView')
       /\ pipelinesView'.searchQuery # pipelinesView.searchQuery
            => pipelinesView'.filteredPipelines = PipelinesMatching(pipelinesView')
       /\ jobsView'.searchQuery # jobsView.searchQuery
            => jobsView'.filteredJobs = JobsMatching(jobsView')]_vars

\* the upper-case query "B" has kept the pipeline named "Sbb" and the one of team "bs"
C5_Witness ==
    /\ pipelinesView.searchQuery = <<"B">>
    /\ pipelinesView.pipelines = <<P1, P2, P3>>
    /\ pipelinesView.filteredPipelines = <<P1, P2>>

\* C6: in the Targets, Pipelines and Jobs views every element of the filtered list is
\* an element of the view's full list, in every reachable state.
C6_FilteredWithinFull ==
    /\ SeqElems(targetsView.filteredTargets) \subseteq SeqElems(targetsView.targets)
    /\ SeqElems(pipelinesView.filteredPipelines) \subseteq SeqElems(pipelinesView.pipelines)
    /\ SeqElems(jobsView.filteredJobs) \subseteq SeqElems(jobsView.jobs)

\* C7: a one-character key pressed while the active view is in search mode appends that
\* character to the view's query and does nothing else: the program does not quit, the
\* active view stays, no command is handed to the runtime.
C7_TypedCharOnlyAppends ==
    [][\A key \in Runes :
         (SearchActive /\ KeyMsg(key))
            => /\ ActiveQuery' = Append(ActiveQuery, key)
               /\ ~quit'
               /\ currentView' = currentView
               /\ pending' = pending]_vars

\* C8: "esc" pressed while the active view is in search mode leaves search mode, empties
\* the query, makes the filtered list the full list and selects row 0.
C8_EscCancelsSearch ==
    [][(SearchActive /\ KeyMsg("esc"))
         => /\ (currentView = ViewTargets)
                 => /\ ~targetsView'.searchMode /\ targetsView'.searchQuery = NoName
                    /\ targetsView'.filteredTargets = targetsView'.targets
                    /\ targetsView'.selected = 0
            /\ (currentView = ViewPipelines)
                 => /\ ~pipelinesView'.searchMode /\ pipelinesView'.searchQuery = NoName
                    /\ pipelinesView'.filteredPipelines = pipelinesView'.pipelines
                    /\ pipelinesView'.selected = 0
            /\ (currentView = ViewJobs)
                 => /\ ~jobsView'.searchMode /\ jobsView'.searchQuery = NoName
                    /\ jobsView'.filteredJobs = jobsView'.jobs
                    /\ jobsView'.selected = 0]_vars

\* C9: when the loaded message of a refresh is processed in the Pipelines or Jobs view
\* that holds a confirmed non-empty query, the query is kept, the filtered list is the
\* newly loaded list filtered by it, and the selection is in bounds.
C9_RefreshKeepsFilter ==
    [][/\ (/\ pipelinesView.state = pipelinesStateLoading
           /\ pipelinesView.searchQuery # NoName /\ ~pipelinesView.searchMode
           /\ \E c \in BagToSet(pending), msg \in PipelinesResults :
                 ~IsAuthError(msg.Error) /\ DeliverPipelinesLoaded(c, msg))
            => /\ pipelinesView'.searchQuery = pipelinesView.searchQuery
               /\ pipelinesView'.filteredPipelines = PipelinesMatching(pipelinesView')
               /\ InBounds(pipelinesView'.selected, pipelinesView'.filteredPipelines)
       /\ (/\ jobsView.loading
           /\ jobsView.searchQuery # NoName /\ ~jobsView.searchMode
           /\ \E c \in BagToSet(pending) : \E msg \in JobsResults(c.pipeline) :
                 DeliverJobsLoaded(c, msg))
            => /\ jobsView'.searchQuery = jobsView.searchQuery
               /\ jobsView'.filteredJobs = JobsMatching(jobsView')
               /\ InBounds(jobsView'.selected, jobsView'.filteredJobs)]_vars

\* C10: when the reload that follows a successful resource check or build rerun is
\* processed, the entity selected before it is the selected one after it whenever the
\* reloaded list holds it.
C10_ReloadKeepsSelectedEntity ==
    [][/\ \A c \in BagToSet(pending) : \A msg \in ResourcesReloadResults(c.pipeline) :
            (/\ c.kind = "GetResources.reload"
             /\ DeliverResourcesLoaded(c, msg)
             /\ Len(resourcesView.resources) > 0
             /\ \E i \in 1..Len(msg.Resources) :
                   msg.Resources[i].Name = resourcesView.resources[resourcesView.selected + 1].Name)
               => resourcesView'.resources[resourcesView'.selected + 1].Name
                     = resourcesView.resources[resourcesView.selected + 1].Name
       /\ \A c \in BagToSet(pending) : \A msg \in BuildsResults(c.pipeline, c.job) :
            (/\ c.kind = "GetBuilds.delayed"
             /\ DeliverBuildsLoaded(c, msg)
             /\ Len(buildsView.builds) > 0
             /\ \E i \in 1..Len(msg.Builds) :
                   msg.Builds[i].Name = buildsView.builds[buildsView.cursor + 1].Name)
               => buildsView'.builds[buildsView'.cursor + 1].Name
                     = buildsView.builds[buildsView.cursor + 1].Name]_vars

\* the parent of each view in the navigation hierarchy; Main and Targets are roots
HierarchyParent(view) ==
    CASE view = "ViewBuilds" -> "ViewJobs"
      [] view = "ViewResources" -> "ViewPipelines"
      [] view = "ViewJobs" -> "ViewPipelines"
      [] view = "ViewPipelines" -> "ViewTargets"
      [] view = "ViewAddTarget" -> "ViewTargets"
      [] view = "ViewAuth" -> "ViewTargets"
      [] view = "ViewTargets" -> "ViewTargets"
      [] view = "ViewMain" -> "ViewMain"

AuthIntercepted == currentView' = ViewAuth /\ authView'.target = client

\* C13: whenever the result of a pipelines, jobs, resources or builds load carries an
\* error that matches the auth-requirement predicate while a target has been selected
\* (its client is in use), processing it switches the active view to Authentication for
\* that target, and the error is not stored in the list view.
C13_AuthErrorIntercepted ==
    [][/\ \A c \in BagToSet(pending), msg \in PipelinesResults :
            (DeliverPipelinesLoaded(c, msg) /\ IsAuthError(msg.Error) /\ client # NoClient)
               => AuthIntercepted /\ pipelinesView'.err = pipelinesView.err
       /\ \A c \in BagToSet(pending) : \A msg \in JobsResults(c.pipeline) :
            (DeliverJobsLoaded(c, msg) /\ IsAuthError(msg.Error) /\ client # NoClient)
               => AuthIntercepted /\ jobsView'.err = jobsView.err
       /\ \A c \in BagToSet(pending) : \A msg \in ResourcesResults(c.pipeline) :
            (DeliverResourcesLoaded(c, msg) /\ IsAuthError(msg.Error) /\ client # NoClient)
               => AuthIntercepted /\ resourcesView'.err = resourcesView.err
       /\ \A c \in BagToSet(pending) : \A msg \in BuildsResults(c.pipeline, c.job) :
            (DeliverBuildsLoaded(c, msg) /\ IsAuthError(msg.Error) /\ client # NoClient)
               => AuthIntercepted /\ buildsView'.err = buildsView.err]_vars

\* s is a plain integer: decimal digits only, at least one
PlainInteger(s) ==
    /\ Len(s) > 0
    /\ \A i \in 1..Len(s) : s[i] \in {"0", "1", "2", "3", "4", "5", "6", "7", "8", "9"}

\* C14: "enter" in the list state of the Builds view on a build whose name is not a
\* plain integer sets an error message, leaves the view in the list state and hands the
\* runtime nothing but the timer that clears the message: no rerun call is dispatched.
C14_MalformedBuildNotRerun ==
    [][(/\ currentView = ViewBuilds
        /\ buildsView.state = buildsStateList
        /\ Len(buildsView.builds) > 0
        /\ ~PlainInteger(buildsView.builds[buildsView.cursor + 1].Name)
        /\ KeyMsg("enter"))
         => /\ buildsView'.rerunMessage
                  = <<"Error: Invalid build number ">> \o buildsView.builds[buildsView.cursor + 1].Name
            /\ buildsView'.state = buildsStateList
            /\ buildsView'.builds = buildsView.builds /\ buildsView'.cursor = buildsView.cursor
            /\ pending' = pending (+) SetToBag({ClearTick})
            /\ OpsInFlight({"RerunBuildWithOutput"})' = OpsInFlight({"RerunBuildWithOutput"})]_vars

\* the sub-build "7.1" is selected and its rerun has been refused
C14_Witness ==
    /\ currentView = ViewBuilds
    /\ buildsView.state = buildsStateList
    /\ Len(buildsView.builds) > 0
    /\ buildsView.builds[buildsView.cursor + 1].Name = <<"7", ".", "1">>
    /\ buildsView.rerunMessage = <<"Error: Invalid build number ", "7", ".", "1">>
    /\ OpsInFlight({"RerunBuildWithOutput"}) = 0

\* C15: processing the result of a resource check hands the runtime a reload request if
\* and only if the result has no execution error and Success is true; a rejected check
\* (Success false, no execution error) stores an error made of the tool's output text,
\* requests no reload and leaves the resource list and the selection as they were.
C15_ReloadOnlyAfterSuccessfulCheck ==
    [][\A c \in BagToSet(pending), run \in CheckRuns :
         DeliverResourceCheck(c, run)
            => LET r == CheckResourceWithOutput(run)
               IN  /\ (r.Error = NoError /\ r.Success)
                        => OpsInFlight({"ReloadResourcesMsg"})' = OpsInFlight({"ReloadResourcesMsg"}) + 1
                   /\ ~(r.Error = NoError /\ r.Success)
                        => pending' = pending (-) SetToBag({c})
                   /\ (r.Error = NoError /\ ~r.Success)
                        => /\ resourcesView'.checkError = <<"Resource check failed: ">> \o r.Output
                           /\ resourcesView'.checkResult = NoName
                           /\ resourcesView'.resources = resourcesView.resources
                           /\ resourcesView'.selected = resourcesView.selected]_vars

\* a check the tool rejected has been processed: its output is shown as the error of a
\* listed resource and no reload is on its way
C15_Witness ==
    /\ currentView = ViewResources
    /\ Len(resourcesView.resources) > 0
    /\ resourcesView.checkError = <<"Resource check failed: ">> \o TrimSpace(OutNotFound)
    /\ OpsInFlight({"ReloadResourcesMsg", "GetResources.reload"}) = 0

\* the text s without the white space around it
Stripped(s) ==
    LET black == {i \in 1..Len(s) : s[i] \notin {" ", "\n", "\t"}}
    IN  IF black = {} THEN <<>>
        ELSE SubSeq(s, CHOOSE i \in black : \A j \in black : i <= j,
                       CHOOSE i \in black : \A j \in black : i >= j)

\* r is the outcome the adapter owes for the run: not run gives failure with an error; a
\* non-zero exit gives failure, no error, the output; a zero exit gives no error, the
\* output, and success exactly when the output holds the marker word in any case
ThreeWayOutcome(r, run, marker) ==
    /\ run.exit = "cannot run" => ~r.Success /\ r.Error # NoError
    /\ run.exit = "exit status 1"
          => ~r.Success /\ r.Error = NoError /\ r.Output = Stripped(run.output)
    /\ run.exit = "exit status 0"
          => /\ r.Success = CISubstring(run.output, marker)
             /\ r.Error = NoError /\ r.Output = Stripped(run.output)
    /\ ~(r.Success /\ r.Error # NoError)

\* C16: the result of a trigger-job, rerun-build or check-resource call that the router
\* processes is one of three outcomes: the tool could not be run (failure, error set); it
\* exited non-zero (failure, no error, output kept); it exited zero (no error, output
\* kept, success exactly when the output holds "started", for check "succeeded", in any
\* case). Success never comes with an error. The output is kept without the white space
\* around it.
C16_ThreeWayResult ==
    [][/\ \A c \in BagToSet(pending), run \in TriggerRuns :
            DeliverTriggerJob(c, run)
               => /\ ThreeWayOutcome(TriggerJobWithOutput(run), run, <<"s", "t", "a", "r", "t", "e", "d">>)
                  /\ (jobsView'.triggerResult # NoName)
                        = (run.exit = "exit status 0" /\ jobsView'.triggerResult = Stripped(run.output))
       /\ \A c \in BagToSet(pending), run \in RerunRuns :
            DeliverBuildRerunResult(c, run)
               => /\ ThreeWayOutcome(RerunBuildWithOutput(run), run, <<"s", "t", "a", "r", "t", "e", "d">>)
                  /\ (OpsInFlight({"GetBuilds.delayed"})' > OpsInFlight({"GetBuilds.delayed"}))
                        => run.exit = "exit status 0"
       /\ \A c \in BagToSet(pending), run \in CheckRuns :
            DeliverResourceCheck(c, run)
               => /\ ThreeWayOutcome(CheckResourceWithOutput(run), run,
                                     <<"s", "u", "c", "c", "e", "e", "d", "e", "d">>)
                  /\ (resourcesView'.checkResult # NoName)
                        = (run.exit = "exit status 0" /\ resourcesView'.checkResult = Stripped(run.output))]_vars

\* a trigger whose run printed the marker word but exited non-zero is shown as a failure
C16_Witness ==
    /\ currentView = ViewJobs
    /\ jobsView.triggerError = <<"Job trigger failed: ">> \o Stripped(OutStarted)
    /\ jobsView.triggerResult = NoName

\* C17: after a target creation has succeeded (TargetCreateMsg with Success true) and the
\* Targets view is the active view again, the list of the Targets view is the set of
\* targets the configuration file holds, the one the login has just written included.
C17_TargetsListEqualsConfigFile ==
    (addTargetView.saveResult # NoName /\ currentView = ViewTargets)
        => SeqElems(targetsView.targets) = flyrc

\* C18: when "d" is pressed on a selected target of the Targets view and the removal
\* succeeds, the full and the filtered list of the view no longer hold that target, the
\* selection is an index of the shortened list, and Enter selects no target that is
\* absent from the store.
C18_DeletedTargetLeavesView ==
    [][(KeyMsg("d") /\ currentView = ViewTargets /\ store' # store /\ flyrc' = store')
         => /\ \A t \in store \ store' :
                  /\ t \notin SeqElems(targetsView'.targets)
                  /\ t \notin SeqElems(targetsView'.filteredTargets)
            /\ \/ Len(targetsView'.filteredTargets) = 0 /\ targetsView'.selected = 0
               \/ targetsView'.selected \in 0..(Len(targetsView'.filteredTargets) - 1)
            /\ \A i \in 1..Len(selectTarget(targetsView')) :
                  \E t \in store' : t.Name = selectTarget(targetsView')[i].target]_vars

\* the fields of the form that are empty or white space only
BlankFields == {i \in 1..3 : \A j \in 1..Len(addTargetView.values[i]) :
                                addTargetView.values[i][j] \in {" ", "\n", "\t"}}

C20_RetryOnlyAfterPendingLogin ==
    [][(KeyMsg("r") /\ currentView = ViewAddTarget /\ ~addTargetView.saving)
         => /\ addTargetView.err = ErrExitStatus
                => \E c \in BagToSet(pending') :
                      /\ c.kind = "status" /\ c.target = Stripped(addTargetView.values[1])
                      /\ CopiesIn(c, pending') = CopiesIn(c, pending) + 1
            /\ (addTargetView.saveResult # NoName \/ addTargetView.err = ErrExec)
                => pending' = pending]_vars

\* C21: "p" on a selected pipeline of the Pipelines view dispatches a remote
\* pause-pipeline command when the pipeline runs and an unpause-pipeline command when it
\* is paused, and the pipeline list is fetched again once the command has completed; the
\* paused flags of the list held by the view change only when a PipelinesLoadedMsg is
\* processed.
C21_PauseIsRemoteThenRefetch ==
    [][/\ (KeyMsg("p") /\ currentView = ViewPipelines /\ ~SearchActive
             /\ Len(pipelinesView.filteredPipelines) > 0)
            => \E c \in BagToSet(pending') :
                  /\ c.kind = (IF pipelinesView.filteredPipelines[pipelinesView.selected + 1].Paused
                               THEN "UnpausePipeline" ELSE "PausePipeline")
                  /\ c.pipeline = pipelinesView.filteredPipelines[pipelinesView.selected + 1].Name
                  /\ CopiesIn(c, pending') = CopiesIn(c, pending) + 1
       /\ (~quit' /\ pipelinesView'.pipelines # pipelinesView.pipelines)
            => \E c \in BagToSet(pending) : \E msg \in PipelinesResults :
                  DeliverPipelinesLoaded(c, msg)]_vars

\* C22: right after the router has processed a switch into the Pipelines, Jobs, Resources
\* or Builds view that dispatches a list load, that view is in its Loading state, and a
\* view leaves Loading only in a step that processes a loaded message for it.
C22_SwitchEntersLoading ==
    [][/\ \A c \in BagToSet(pending) :
            DeliverSwitchView(c)
              => /\ OpsInFlight({"GetPipelines"})' > OpsInFlight({"GetPipelines"})
                      => pipelinesView'.state = pipelinesStateLoading
                 /\ OpsInFlight({"GetJobs"})' > OpsInFlight({"GetJobs"}) => jobsView'.loading
                 /\ OpsInFlight({"GetResources"})' > OpsInFlight({"GetResources"})
                      => resourcesView'.state = resourcesStateLoading
                 /\ OpsInFlight({"GetBuilds"})' > OpsInFlight({"GetBuilds"})
                      => buildsView'.state = buildsStateLoading
       /\ (~quit' /\ pipelinesView.state = pipelinesStateLoading
             /\ pipelinesView'.state # pipelinesStateLoading)
            => \E c \in BagToSet(pending) : \E msg \in PipelinesResults :
                  DeliverPipelinesLoaded(c, msg)
       /\ (~quit' /\ jobsView.loading /\ ~jobsView'.loading)
            => \E c \in BagToSet(pending) : \E msg \in JobsResults(c.pipeline) :
                  DeliverJobsLoaded(c, msg)
       /\ (~quit' /\ resourcesView.state = resourcesStateLoading
             /\ resourcesView'.state # resourcesStateLoading)
            => \E c \in BagToSet(pending) :
                  \E msg \in ResourcesResults(c.pipeline) \cup ResourcesReloadResults(c.pipeline) :
                     DeliverResourcesLoaded(c, msg)
       /\ (~quit' /\ buildsView.state = buildsStateLoading
             /\ buildsView'.state # buildsStateLoading)
            => \E c \in BagToSet(pending) : \E msg \in BuildsResults(c.pipeline, c.job) :
                  DeliverBuildsLoaded(c, msg)]_vars

\* the text of err asks for authentication while a stored target is the current one: the
\* router keeps such a pipelines result from the Pipelines view
KeptFromPipelinesView(err) ==
    /\ \/ CISubstring(err, <<"n", "o", "t", " ", "a", "u", "t", "h", "o", "r", "i", "z", "e", "d">>)
       \/ CISubstring(err, <<"n", "o", "t", " ", "l", "o", "g", "g", "e", "d", " ", "i", "n">>)
       \/ CISubstring(err, <<"u", "n", "a", "u", "t", "h", "o", "r", "i", "z", "e", "d">>)
       \/ CISubstring(err, <<"a", "u", "t", "h", "e", "n", "t", "i", "c", "a", "t", "i", "o", "n">>)
    /\ \E t \in store : t.Name = currentTarget /\ t.Name # <<>>

\* C23 as stated: once the router has processed the result message of a load, the view
\* the load belongs to is not in Loading: it is in List, holding the loaded entities or
\* the load error.
C23_LoadResultLeavesLoading ==
    [][/\ \A c \in BagToSet(pending), msg \in PipelinesResults :
            DeliverPipelinesLoaded(c, msg)
               => /\ pipelinesView'.state = pipelinesStateList
                  /\ pipelinesView'.pipelines = msg.Pipelines /\ pipelinesView'.err = msg.Error
       /\ \A c \in BagToSet(pending) : \A msg \in JobsResults(c.pipeline) :
            DeliverJobsLoaded(c, msg)
               => ~jobsView'.loading /\ jobsView'.jobs = msg.Jobs /\ jobsView'.err = msg.Error
       /\ \A c \in BagToSet(pending) :
            \A msg \in ResourcesResults(c.pipeline) \cup ResourcesReloadResults(c.pipeline) :
               DeliverResourcesLoaded(c, msg)
                  => /\ resourcesView'.state = resourcesStateList
                     /\ resourcesView'.resources = msg.Resources /\ resourcesView'.err = msg.Error
       /\ \A c \in BagToSet(pending) : \A msg \in BuildsResults(c.pipeline, c.job) :
            DeliverBuildsLoaded(c, msg)
               => /\ buildsView'.state = buildsStateList
                  /\ buildsView'.builds = msg.Builds /\ buildsView'.err = msg.Error]_vars

\* C23, corrected: the same, except for a pipelines result the router keeps from the
\* Pipelines view because it asks for authentication; that result leaves the Pipelines
\* view as it was, Loading included.
C23_LoadResultLeavesLoadingUnlessKept ==
    [][/\ \A c \in BagToSet(pending), msg \in PipelinesResults :
            DeliverPipelinesLoaded(c, msg)
               => IF KeptFromPipelinesView(msg.Error)
                  THEN pipelinesView' = pipelinesView
                  ELSE /\ pipelinesView'.state = pipelinesStateList
                       /\ pipelinesView'.pipelines = msg.Pipelines
                       /\ pipelinesView'.err = msg.Error
       /\ \A c \in BagToSet(pending) : \A msg \in JobsResults(c.pipeline) :
            DeliverJobsLoaded(c, msg)
               => ~jobsView'.loading /\ jobsView'.jobs = msg.Jobs /\ jobsView'.err = msg.Error
       /\ \A c \in BagToSet(pending) :
            \A msg \in ResourcesResults(c.pipeline) \cup ResourcesReloadResults(c.pipeline) :
               DeliverResourcesLoaded(c, msg)
                  => /\ resourcesView'.state = resourcesStateList
                     /\ resourcesView'.resources = msg.Resources /\ resourcesView'.err = msg.Error
       /\ \A c \in BagToSet(pending) : \A msg \in BuildsResults(c.pipeline, c.job) :
            DeliverBuildsLoaded(c, msg)
               => /\ buildsView'.state = buildsStateList
                  /\ buildsView'.builds = msg.Builds /\ buildsView'.err = msg.Error]_vars

\* a pipelines load has failed with an error that asks for no authentication, and the
\* Pipelines view shows it in its List state with nothing in flight
C23_Witness ==
    /\ currentView = ViewPipelines
    /\ pipelinesView.state = pipelinesStateList
    /\ pipelinesView.err = ErrRefused
    /\ OpsInFlight({"GetPipelines"}) = 0

\* C24: processing an AuthenticationMsg with Success hands the runtime a switch to the
\* Pipelines view for the authenticated target, and processing that switch makes
\* Pipelines the active view and the target the current one and dispatches a pipelines
\* load, whatever view was active. Processing an AuthenticationMsg with a failure leaves
\* the active view alone, stores the error in the Authentication view and dispatches
\* nothing, and the view then is not busy; "enter" and "y" in a view that is not busy
\* start a login.
C24_AuthResultRouting ==
    [][/\ \A c \in BagToSet(pending) : \A msg \in AuthResults(c) :
            DeliverAuthentication(c, msg)
               => /\ currentView' = currentView
                  /\ authView'.error = msg.Error
                  /\ ~authView'.authenticating
                  /\ IF msg.Success
                     THEN pending' = (pending (-) SetToBag({c}))
                                        (+) SetToBag({SwitchViewMsg(ViewPipelines, msg.Target,
                                                                    <<>>, <<>>)})
                     ELSE pending' = pending (-) SetToBag({c})
       /\ \A c \in BagToSet(pending) :
            (DeliverSwitchView(c) /\ c.view = ViewPipelines /\ c.target # <<>>)
               => /\ currentView' = ViewPipelines
                  /\ currentTarget' = c.target
                  /\ pipelinesView'.client = c.target
                  /\ OpsInFlight({"GetPipelines"})' = OpsInFlight({"GetPipelines"}) + 1
       /\ \A key \in {"enter", "y"} :
            (KeyMsg(key) /\ currentView = ViewAuth /\ ~authView.authenticating)
               => /\ OpsInFlight({"LoginInteractive"})' = OpsInFlight({"LoginInteractive"}) + 1
                  /\ authView'.authenticating]_vars

\* a login has failed: the Authentication view is still the active view, shows the error
\* and is not busy
C24_Witness ==
    /\ currentView = ViewAuth
    /\ authView.error = ErrExitStatus
    /\ ~authView.authenticating
    /\ OpsInFlight({"LoginInteractive"}) = 0

\* C25: processing a BuildRerunResultMsg schedules one delayed reload of the build list,
\* for the pipeline and job of the Builds view, if and only if the result has no
\* execution error and reports success; a rejected or errored rerun schedules no reload.
\* In all three cases the Builds view is in its List state afterwards.
C25_ReloadOnlyAfterSuccessfulRerun ==
    [][\A c \in BagToSet(pending), run \in RerunRuns :
         DeliverBuildRerunResult(c, run)
            => LET r == RerunBuildWithOutput(run)
                   reload == Cmd("GetBuilds.delayed", "", buildsView.client, buildsView.pipeline,
                                 buildsView.job, 0)
               IN  /\ buildsView'.state = buildsStateList
                   /\ (r.Error = NoError /\ r.Success)
                        => /\ CopiesIn(reload, pending') = CopiesIn(reload, pending) + 1
                           /\ OpsInFlight({"GetBuilds.delayed"})'
                                 = OpsInFlight({"GetBuilds.delayed"}) + 1
                   /\ ~(r.Error = NoError /\ r.Success)
                        => OpsInFlight({"GetBuilds.delayed"})' = OpsInFlight({"GetBuilds.delayed"})]_vars

\* a rerun the tool rejected has been processed: the Builds view is back in its List
\* state, shows the failure and no reload is scheduled
C25_Witness ==
    /\ currentView = ViewBuilds
    /\ buildsView.state = buildsStateList
    /\ buildsView.rerunMessage = <<"Failed to rerun build: ">> \o Stripped(OutNotFound)
    /\ OpsInFlight({"GetBuilds.delayed", "RerunBuildWithOutput"}) = 0

\* C26: a BuildRerunTickMsg processed while the Builds view is Rerunning schedules exactly
\* one further tick and changes nothing else; one processed in any other state schedules
\* nothing and changes nothing. Hence, if from some point on the view is never Rerunning,
\* then from some point on no tick is in flight.
C26_TickOnlyWhileRerunning ==
    /\ [][\A c \in BagToSet(pending) :
            DeliverBuildRerunTick(c)
               => /\ buildsView' = buildsView
                  /\ pending' = IF buildsView.state = buildsStateRerunning
                                THEN pending
                                ELSE pending (-) SetToBag({c})]_vars
    /\ (<>[](buildsView.state # buildsStateRerunning)
          => <>[](OpsInFlight({"BuildRerunTickMsg"}) = 0))

\* the rerun has ended and the view is in its List state while a tick of the rerun is
\* still in flight
C26_Witness ==
    /\ currentView = ViewBuilds
    /\ buildsView.state = buildsStateList
    /\ OpsInFlight({"BuildRerunTickMsg"}) = 1
    /\ OpsInFlight({"RerunBuildWithOutput"}) = 0

\* C27: a timer or operation message of the Builds view (ClearRerunMessageMsg,
\* BuildRerunTickMsg, BuildRerunResultMsg, the BuildsLoadedMsg of the delayed reload)
\* that is processed while another view is active changes neither the router's active
\* view nor any view other than the Builds view
C27_BuildsMessagesTouchOnlyBuilds ==
    [][\A c \in BagToSet(pending) :
         (/\ currentView # ViewBuilds
          /\ \/ DeliverClearRerunMessage(c)
             \/ DeliverBuildRerunTick(c)
             \/ \E run \in RerunRuns : DeliverBuildRerunResult(c, run)
             \/ /\ c.kind = "GetBuilds.delayed"
                /\ \E msg \in BuildsResults(c.pipeline, c.job) : DeliverBuildsLoaded(c, msg))
            => UNCHANGED <<currentView, currentTarget, client, targetsView, pipelinesView,
                           jobsView, resourcesView, authView, mainView, addTargetView>>]_vars

\* the Jobs view is active, the rerun started in the Builds view has been answered
\* there, and its delayed reload is still to come
C27_Witness ==
    /\ currentView = ViewJobs
    /\ buildsView.state = buildsStateList
    /\ buildsView.rerunMessage # NoName
    /\ OpsInFlight({"GetBuilds.delayed"}) = 1
    /\ OpsInFlight({"SwitchViewMsg"}) = 0

\* where "up" or "down" leaves a selection at index sel of a list of n entries
MovedWithinBounds(sel, n, key) ==
    IF key = "up" THEN (IF sel > 0 THEN sel - 1 ELSE sel)
    ELSE (IF sel < n - 1 THEN sel + 1 ELSE sel)

\* C28: while a mutating operation is in flight in the Jobs, Resources or Builds view
\* (a job trigger, a resource check, a build rerun), "up" and "down" pressed in that view
\* still move its selection by one within the bounds of its list.
C28_NavigationDuringOperation ==
    \A key \in {"up", "down"} :
       CanPress(key)
         => /\ (currentView = ViewJobs /\ ~jobsView.searchMode
                  /\ OpsInFlight({"TriggerJobWithOutput"}) > 0)
                 => JobsUpdate(jobsView, key).m.selected
                       = MovedWithinBounds(jobsView.selected, Len(jobsView.filteredJobs), key)
            /\ (currentView = ViewResources /\ OpsInFlight({"CheckResourceWithOutput"}) > 0)
                 => ResourcesUpdate(resourcesView, key).m.selected
                       = MovedWithinBounds(resourcesView.selected,
                                           Len(resourcesView.resources), key)
            /\ (currentView = ViewBuilds /\ buildsView.state = buildsStateRerunning
                  /\ OpsInFlight({"RerunBuildWithOutput"}) > 0)
                 => \A r \in BuildsKeyReturns(buildsView, key) :
                       r.m.cursor = MovedWithinBounds(buildsView.cursor,
                                                      Len(buildsView.builds), key)

\* C29: from the dispatch of a job trigger for pipeline/job J until the TriggerJobMsg of
\* that trigger is processed, the in-flight indicator of the Jobs view (triggeringJob) is
\* set and names J, whatever keys are pressed in between; the indicator is cleared only
\* in the step that processes the result of the trigger it names.
C29_IndicatorNamesTriggerInFlight ==
    /\ [](\A c \in BagToSet(pending) :
             c.kind = "TriggerJobWithOutput"
                => jobsView.triggeringJob = Slash(c.pipeline, c.job))
    /\ [][(~quit' /\ jobsView.triggeringJob # NoName /\ jobsView'.triggeringJob = NoName)
             => \E c \in BagToSet(pending) : \E run \in TriggerRuns :
                   /\ DeliverTriggerJob(c, run)
                   /\ jobsView.triggeringJob = Slash(c.pipeline, c.job)]_vars

\* C30: while the Add-Target form is submitting (saving is true), no key handled by the
\* form changes a field value or the focused field, and none dispatches a submission or
\* a status probe; saving becomes false only in a step that processes a TargetCreateMsg.
C30_SubmittingFormIsFrozen ==
    /\ [](addTargetView.saving
            => \A key \in FormKeys \cup {"c", "up", "ctrl+a"} : \A copied \in BOOLEAN :
                  LET r == AddTargetUpdate(addTargetView, key, copied)
                  IN  /\ r.m.values = addTargetView.values
                      /\ r.m.focused = addTargetView.focused
                      /\ r.m.saving
                      /\ \A i \in 1..Len(r.cmds) : r.cmds[i].kind \notin {"startSave", "status"})
    /\ [][(~quit' /\ addTargetView.saving /\ ~addTargetView'.saving)
             => \E c \in BagToSet(pending) : \E out \in CreateOutcomes(c) :
                   DeliverTargetCreate(c, out)]_vars

\* the form is on screen and submitting, its command is in flight, and the user can
\* press a key that would edit the focused field
C30_Witness ==
    /\ currentView = ViewAddTarget
    /\ addTargetView.saving
    /\ OpsInFlight({"startSave"}) = 1
    /\ CanPress("backspace")
    /\ Len(addTargetView.values[addTargetView.focused + 1]) > 0

\* C31: processing the ResourcesLoadedMsg of the reload that follows a successful
\* resource check leaves the pipeline of the Resources view as it was, so that a later
\* F5 or a later reload in that view still fetches the resources of that pipeline.
C31_ReloadKeepsPipeline ==
    [][\A c \in BagToSet(pending) :
         (/\ c.kind = "GetResources.reload"
          /\ resourcesView.pipeline = c.pipeline
          /\ \E msg \in ResourcesReloadResults(c.pipeline) : DeliverResourcesLoaded(c, msg))
            => /\ resourcesView'.pipeline = resourcesView.pipeline
               /\ ResourcesUpdate(resourcesView', "f5").cmds
                     = LoadResources(resourcesView', client', c.pipeline)
               /\ ReloadResources(resourcesView', client') # NoCmd]_vars

\* C32: whenever a client is attached to the router, the router's current target is the
\* target that client was created for; switching from Pipelines to Jobs, Resources or
\* Builds and back does not change the current target.
C32_CurrentTargetIsClientTarget ==
    ~quit /\ client # NoClient => currentTarget = client

\* C33: whenever the Jobs, Resources or Builds view is the active view, a client is
\* attached to the router, and in the Builds view the Builds view holds a client too.
C33_ListViewsHaveClient ==
    /\ currentView \in {ViewJobs, ViewResources, ViewBuilds} => client # NoClient
    /\ currentView = ViewBuilds => buildsView.client # NoClient

\* the Builds view is on screen, entered from the Jobs view after the current target
\* has been emptied by the switch into the Jobs view
C33_Witness ==
    /\ currentView = ViewBuilds
    /\ currentTarget = NoName
    /\ buildsView.client = client
    /\ buildsView.state = buildsStateList

\* C34: at most one interactive login is in flight at any time, whether it was started
\* from the Authentication view or by a submission of the Add-Target form.
C34_OneLoginInFlight ==
    OpsInFlight({"LoginInteractive", "startSave"}) <= 1

\* C35: the switch back to the Targets view that a successful target creation schedules
\* takes effect only while the Add-Target view is still the active view: processed after
\* the user has moved to another view, it changes neither the active view nor the
\* current target.
C35_LateAutoReturnIgnored ==
    [][\A c \in BagToSet(pending) :
         (/\ c = SwitchViewMsg(ViewTargets, NoName, NoName, NoName)
          /\ addTargetView.saveResult # NoName
          /\ currentView \notin {ViewAddTarget, ViewMain}
          /\ DeliverSwitchView(c))
            => /\ currentView' = currentView
               /\ currentTarget' = currentTarget]_vars

\* C36: every time the Add-Target view is entered from the Targets view, the form is
\* in its Editing state with all fields empty, the focus on the first field, no result
\* and no error, however an earlier visit to the form ended.
C36_FormEnteredFresh ==
    [][\A c \in BagToSet(pending) :
         (c.view = ViewAddTarget /\ currentView = ViewTargets /\ DeliverSwitchView(c))
            => /\ addTargetView'.values = <<NoName, NoName, NoName>>
               /\ addTargetView'.focused = 0
               /\ ~addTargetView'.saving
               /\ addTargetView'.saveResult = NoName
               /\ addTargetView'.err = NoError]_vars

\* C37: a job trigger or resource check runs against the client that was attached to the
\* router when its request message was processed, also when a SwitchViewMsg that selects
\* another target is processed before the command actually runs.
C37_OperationUsesRequestClient ==
    \A c \in BagToSet(pending) :
       (c.kind \in {"TriggerJobWithOutput", "CheckResourceWithOutput"} /\ c.ran # NoName)
          => c.ran = c.target

\* C38: the jobs load dispatched when the Jobs view is entered from the Pipelines view by
\* Enter is for the pipeline named in the switch message, the one selected when Enter was
\* pressed, whatever keys changed the selection or the filter of the Pipelines view before
\* the switch message is processed.
C38_JobsLoadedForSwitchedPipeline ==
    [][\A c \in BagToSet(pending) :
         (c.view = ViewJobs /\ c.pipeline # NoName /\ DeliverSwitchView(c))
            => \E d \in BagToSet(pending') :
                  /\ d.kind = "GetJobs"
                  /\ d.pipeline = c.pipeline
                  /\ CopiesIn(d, pending') = CopiesIn(d, pending) + 1]_vars

\* C39: the Builds view is in the Rerunning state exactly while a rerun dispatched from
\* it awaits its result: no loaded message and no re-entry of the view moves it out of
\* Rerunning while the rerun is outstanding, and a rerun result never moves it out of
\* Loading while a list load is outstanding.
C39_RerunningWhileRerunOutstanding ==
    /\ [](~quit => (buildsView.state = buildsStateRerunning
                      <=> OpsInFlight({"RerunBuildWithOutput"}) > 0))
    /\ [][\A c \in BagToSet(pending) : \A run \in RerunRuns :
            (/\ buildsView.state = buildsStateLoading
             /\ OpsInFlight({"GetBuilds"}) > 0
             /\ DeliverBuildRerunResult(c, run))
               => buildsView'.state = buildsStateLoading]_vars

\* C40: a ClearRerunMessageMsg removes only the banner of the operation that scheduled
\* it: it never erases the in-progress text of a rerun that is running, and while a later
\* clear message is still in flight it does not erase the banner that one was scheduled for.
C40_ClearRemovesOnlyOwnBanner ==
    [][\A c \in BagToSet(pending) :
         DeliverClearRerunMessage(c)
            => /\ (buildsView.state = buildsStateRerunning
                     /\ buildsView.rerunMessage = <<"Rerunning build...">>)
                    => buildsView'.rerunMessage = buildsView.rerunMessage
               /\ (CopiesIn(c, pending) > 1 /\ buildsView.rerunMessage # NoName)
                    => buildsView'.rerunMessage = buildsView.rerunMessage]_vars

====
